---------------------------- MODULE Spec2Model ----------------------------
(***************************************************************************)
(* Storage core of bustub: the buffer pool manager instance together with  *)
(* the LRU-K replacer and the extendible hash table it uses as page table. *)
(* Every operation of the C++ code is an operator on a record holding the  *)
(* object's fields; the actions of the specification apply the operators.  *)
(***************************************************************************)
EXTENDS Integers, Sequences, FiniteSets, TLC

\* ------------------------------------------------------------------ bounds
\* Number of frames of the pool (constructor argument pool_size).
PoolSize == 2
\* The K of LRU-K (constructor argument replacer_k).
ReplacerK == 2
\* Largest value of the replacer's logical clock. NewPage and FetchPage each
\* record one access, so it also bounds the page ids handed out and the pins.
MaxTimestamp == 4
\* Capacity of a page-table bucket.
BucketSize == 1
\* Page contents are 0 (zeroed memory) .. MaxData.
MaxData == 1
\* Number of threads calling into the buffer pool manager.
NumThreads == 2
\* Keys of the hash table used on its own are 0 .. MaxKey.
MaxKey == 8
\* Largest number of keys that hash table holds at a time.
MaxEntries == 3
\* Capacity of a bucket of that hash table (constructor argument bucket_size).
TableBucketSize == 2
\* Constructor arguments leaf_max_size and internal_max_size of the B+ tree.
LeafMaxSize == 3
InternalMaxSize == 5
\* Keys of the B+ tree are 1 .. MaxTreeKey, record ids 1 .. MaxRID.
MaxTreeKey == 6
MaxRID == 2
\* Number of Insert calls and of Remove calls made on the B+ tree.
MaxInserts == 6
MaxRemoves == 1
\* The trie: characters, key length, values, and keys stored at once.
NumChars == 2
MaxKeyLen == 3
MaxTrieValue == 2
MaxStored == 3
\* Insert calls of the concurrent writers of one B+ tree.
MaxWrites == 4

\* --------------------------------------------------------------- constants
INVALID_PAGE_ID == -1
\* "no frame": the nullptr NewPgImp and FetchPgImp return.
NoFrame == -1

Frames == 0 .. (PoolSize - 1)
PageIds == 0 .. (MaxTimestamp - 1)
Data == 0 .. MaxData
Threads == 1 .. NumThreads
Keys == 0 .. MaxKey
TreeKeys == 1 .. MaxTreeKey
RIDs == 1 .. MaxRID

\* ------------------------------------------------- extendible hash table
\* std::hash of an integral key is the key itself.
Hash(key) == key

RECURSIVE Pow2(_)
Pow2(n) == IF n = 0 THEN 1 ELSE 2 * Pow2(n - 1)

\* x & m for a mask m = 2^d - 1.
LowBits(x, d) == x % Pow2(d)
\* x & m for a single-bit mask m = 2^d, as 0 or m.
BitAnd(x, m) == ((x \div m) % 2) * m

ExtendibleHashTable(bucket_size) ==
    [global_depth |-> 0,
     bucket_size  |-> bucket_size,
     num_buckets  |-> 1,
     dir          |-> <<1>>,
     buckets      |-> <<[size |-> bucket_size, depth |-> 0, list |-> <<>>]>>]

IndexOf(ht, key) == LowBits(Hash(key), ht.global_depth)

\* Position in list of the first pair with this key, 0 when there is none.
BucketPos(bucket, key) ==
    LET hits == {i \in 1 .. Len(bucket.list) : bucket.list[i][1] = key}
    IN  IF hits = {} THEN 0 ELSE CHOOSE i \in hits : \A j \in hits : i <= j

BucketFind(bucket, key) ==
    LET i == BucketPos(bucket, key)
    IN  IF i = 0 THEN [found |-> FALSE, value |-> NoFrame]
        ELSE [found |-> TRUE, value |-> bucket.list[i][2]]

BucketRemove(bucket, key) ==
    LET i == BucketPos(bucket, key)
    IN  IF i = 0 THEN [success |-> FALSE, bucket |-> bucket]
        ELSE [success |-> TRUE,
              bucket  |-> [bucket EXCEPT !.list =
                              SubSeq(bucket.list, 1, i - 1) \o
                              SubSeq(bucket.list, i + 1, Len(bucket.list))]]

\* IsFull with a fault: a bucket never reports that it is full.
BucketIsFullNever(bucket) == FALSE

BucketIsFull(bucket) == Len(bucket.list) = bucket.size

BucketInsert(bucket, key, value) ==
    LET i == BucketPos(bucket, key)
    IN  IF i # 0
        THEN [success |-> TRUE, bucket |-> [bucket EXCEPT !.list[i] = <<key, value>>]]
        ELSE IF BucketIsFull(bucket)
        THEN [success |-> FALSE, bucket |-> bucket]
        ELSE [success |-> TRUE,
              bucket  |-> [bucket EXCEPT !.list = Append(bucket.list, <<key, value>>)]]

HashFind(ht, key) == BucketFind(ht.buckets[ht.dir[IndexOf(ht, key) + 1]], key)

HashRemove(ht, key) ==
    LET b == ht.dir[IndexOf(ht, key) + 1]
        r == BucketRemove(ht.buckets[b], key)
    IN  [success |-> r.success, ht |-> [ht EXCEPT !.buckets[b] = r.bucket]]

\* while (idx < s) idx += m2;
RECURSIVE SplitSkip(_, _, _)
SplitSkip(idx, m2, s) == IF idx < s THEN SplitSkip(idx + m2, m2, s) ELSE idx

\* SplitSpread with a fault: the new bucket is hung into one slot only.
SplitSpreadNone(dir, idx, m2) == dir

\* while (idx + m2 < s) { dir[idx + m2] = dir[idx]; idx += m2; }
RECURSIVE SplitSpread(_, _, _)
SplitSpread(dir, idx, m2) ==
    IF idx + m2 < Len(dir)
    THEN SplitSpread([dir EXCEPT ![idx + m2 + 1] = dir[idx + 1]], idx + m2, m2)
    ELSE dir

\* The directory after the new bucket is hung into the slots of the sibling.
SplitDir(dir, idx0, dep, bucket) ==
    LET m1  == Pow2(dep)
        m2  == Pow2(dep + 1)
        s   == Len(dir)
        idx == SplitSkip(idx0 + m1, m2, s) % s
    IN  SplitSpread([dir EXCEPT ![idx + 1] = bucket], idx, m2)

RECURSIVE InsertImp(_, _, _)
InsertImp(ht, key, value) ==
    LET idx == IndexOf(ht, key)
        ori == ht.dir[idx + 1]
        r   == BucketInsert(ht.buckets[ori], key, value)
    IN  IF r.success THEN [ht EXCEPT !.buckets[ori] = r.bucket]
        ELSE
          LET dep    == ht.buckets[ori].depth
              bucket == Len(ht.buckets) + 1
              double == dep = ht.global_depth
              gd     == IF double THEN ht.global_depth + 1 ELSE ht.global_depth
              dir1   == IF double THEN ht.dir \o ht.dir ELSE ht.dir
              m1     == Pow2(dep)
              items  == ht.buckets[ori].list
              Moves(p) == BitAnd(idx, m1) # BitAnd(LowBits(Hash(p[1]), gd), m1)
              split  == [ht EXCEPT
                           !.global_depth = gd,
                           !.num_buckets = ht.num_buckets + 1,
                           !.dir = SplitDir(dir1, idx, dep, bucket),
                           !.buckets =
                              Append([ht.buckets EXCEPT
                                        ![ori] = [@ EXCEPT
                                           !.depth = dep + 1,
                                           !.list = SelectSeq(items, LAMBDA p : ~Moves(p))]],
                                     [size  |-> ht.bucket_size,
                                      depth |-> dep + 1,
                                      list  |-> SelectSeq(items, LAMBDA p : Moves(p))])]
          IN  InsertImp(split, key, value)

\* InsertImp statement by statement, for a reader that runs between them.
\* The call in progress: who holds latch_2_, where the call stands, and the
\* locals idx, dep, ori_bucket and bucket of the split.
NoInsert ==
    [holder |-> 0, pc |-> "idle", key |-> 0, value |-> 0,
     idx |-> 0, dep |-> 0, ori |-> 0, bucket |-> 0]

\* From the entry of InsertImp to the test of dep against global_depth_: the
\* insertion into the bucket of the key and, when the bucket is full, the
\* new bucket and ori_bucket->IncrementDepth().
InsertImpTry(ht, m) ==
    LET idx == IndexOf(ht, m.key)
        ori == ht.dir[idx + 1]
        r   == BucketInsert(ht.buckets[ori], m.key, m.value)
        dep == ht.buckets[ori].depth
    IN  IF r.success
        THEN [ht |-> [ht EXCEPT !.buckets[ori] = r.bucket], mid |-> NoInsert]
        ELSE [ht  |-> [ht EXCEPT !.buckets =
                          Append([@ EXCEPT ![ori].depth = dep + 1],
                                 [size |-> ht.bucket_size, depth |-> dep + 1, list |-> <<>>])],
              mid |-> [m EXCEPT !.idx = idx, !.dep = dep, !.ori = ori,
                                !.bucket = Len(ht.buckets) + 1,
                                !.pc = IF dep = ht.global_depth THEN "grow" ELSE "move"]]

\* this->global_depth_++
InsertImpGrow(ht, m) ==
    [ht |-> [ht EXCEPT !.global_depth = @ + 1], mid |-> [m EXCEPT !.pc = "double"]]

\* The loop that appends a copy of every slot to the directory.
InsertImpDouble(ht, m) ==
    [ht |-> [ht EXCEPT !.dir = @ \o @], mid |-> [m EXCEPT !.pc = "move"]]

\* The loop over the items of ori_bucket: those whose bit m1 differs from
\* that of idx go to the new bucket.
InsertImpMove(ht, m) ==
    LET m1 == Pow2(m.dep)
        items == ht.buckets[m.ori].list
        Moves(p) == BitAnd(m.idx, m1) # BitAnd(IndexOf(ht, p[1]), m1)
    IN  [ht  |-> [ht EXCEPT !.buckets[m.ori].list = SelectSeq(items, LAMBDA p : ~Moves(p)),
                            !.buckets[m.bucket].list = SelectSeq(items, LAMBDA p : Moves(p))],
         mid |-> [m EXCEPT !.pc = "hang"]]

\* The new bucket is hung into the directory slots of the sibling.
InsertImpHang(ht, m) ==
    [ht  |-> [ht EXCEPT !.dir = SplitDir(@, m.idx, m.dep, m.bucket)],
     mid |-> [m EXCEPT !.pc = "count"]]

\* num_buckets_++ and the call of InsertImp(key, value) again.
InsertImpCount(ht, m) ==
    [ht |-> [ht EXCEPT !.num_buckets = @ + 1], mid |-> [m EXCEPT !.pc = "try"]]

\* The statement of InsertImp the call stands at.
InsertImpStep(ht, m) ==
    CASE m.pc = "try"    -> InsertImpTry(ht, m)
      [] m.pc = "grow"   -> InsertImpGrow(ht, m)
      [] m.pc = "double" -> InsertImpDouble(ht, m)
      [] m.pc = "move"   -> InsertImpMove(ht, m)
      [] m.pc = "hang"   -> InsertImpHang(ht, m)
      [] m.pc = "count"  -> InsertImpCount(ht, m)

\* GetLocalDepthInternal(dir_index): dir_[dir_index] is an element of the
\* vector only below its size; valid tells whether it is.
GetLocalDepthInternal(ht, dir_index) ==
    IF dir_index < Len(ht.dir)
    THEN [valid |-> TRUE, depth |-> ht.buckets[ht.dir[dir_index + 1]].depth]
    ELSE [valid |-> FALSE, depth |-> 0]

\* HashInsert with a fault: a full bucket is not split, the pair is dropped.
HashInsertNoSplit(ht, key, value) ==
    LET ori == ht.dir[IndexOf(ht, key) + 1]
    IN  [ht EXCEPT !.buckets[ori] = BucketInsert(@, key, value).bucket]

HashInsert(ht, key, value) == InsertImp(ht, key, value)

\* The keys stored in the table, whatever slot points at their bucket.
HashKeys(ht) ==
    UNION {{ht.buckets[b].list[i][1] : i \in 1 .. Len(ht.buckets[b].list)} :
              b \in 1 .. Len(ht.buckets)}

\* ------------------------------------------------------- LRU-K replacer
\* A std::map as a function: operator[] creates a missing entry.
MapGet(m, key, default) == IF key \in DOMAIN m THEN m[key] ELSE default
MapTouch(m, key, default) == IF key \in DOMAIN m THEN m ELSE m @@ (key :> default)
MapPut(m, key, value) == [x \in DOMAIN m \cup {key} |-> IF x = key THEN value ELSE m[x]]
MapErase(m, key) == [x \in DOMAIN m \ {key} |-> m[x]]

LRUKReplacer(num_frames, k) ==
    [replacer_size     |-> num_frames,
     k                 |-> k,
     frames            |-> 1 .. num_frames,
     evictable         |-> [i \in 1 .. num_frames |-> FALSE],
     times             |-> <<>>,
     curr_size         |-> 0,
     current_timestamp |-> 0]

\* EvictScore with a fault: a frame with k accesses or more is ranked by its
\* most recent access, as plain LRU does.
EvictScoreMostRecent(r, acc, cur) ==
    LET cur_times == MapGet(r.times, cur, <<>>)
    IN  IF cur_times = <<>> THEN acc
        ELSE IF Len(cur_times) < r.k
        THEN IF acc.t # -1
             THEN [t |-> -1, last_time |-> cur_times[1], frame_id |-> cur, succ |-> TRUE]
             ELSE IF acc.last_time > cur_times[1]
                  THEN [acc EXCEPT !.last_time = cur_times[1], !.frame_id = cur,
                                   !.succ = TRUE]
                  ELSE acc
        ELSE LET cur_time == cur_times[Len(cur_times)]
             IN  IF cur_time < acc.t
                 THEN [acc EXCEPT !.t = cur_time, !.frame_id = cur, !.succ = TRUE]
                 ELSE acc

\* The body of Evict's loop for an entry whose flag is set.
EvictScore(r, acc, cur) ==
    LET cur_times == MapGet(r.times, cur, <<>>)
    IN  IF cur_times = <<>> THEN acc
        ELSE IF Len(cur_times) < r.k
        THEN IF acc.t # -1
             THEN [t |-> -1, last_time |-> cur_times[1], frame_id |-> cur, succ |-> TRUE]
             ELSE IF acc.last_time > cur_times[1]
                  THEN [acc EXCEPT !.last_time = cur_times[1], !.frame_id = cur,
                                   !.succ = TRUE]
                  ELSE acc
        ELSE LET cur_time == cur_times[Len(cur_times) - r.k + 1]
             IN  IF cur_time < acc.t
                 THEN [acc EXCEPT !.t = cur_time, !.frame_id = cur, !.succ = TRUE]
                 ELSE acc

\* EvictStep with a fault: the evictable flag of the entry is not looked at.
EvictStepAnyFrame(r, acc, cur) == EvictScore(r, acc, cur)

\* One iteration of Evict's loop over evictable_.
EvictStep(r, acc, cur) == IF r.evictable[cur] THEN EvictScore(r, acc, cur) ELSE acc

\* The loop over evictable_, in key order. Timestamps are pairwise distinct,
\* so the frame it settles on does not depend on the order of iteration.
RECURSIVE EvictLoop(_, _, _)
EvictLoop(r, acc, todo) ==
    IF todo = {} THEN acc
    ELSE LET cur == CHOOSE x \in todo : \A y \in todo : x <= y
         IN  EvictLoop(r, EvictStep(r, acc, cur), todo \ {cur})

\* frame_id is the caller's variable: it keeps its value when Evict fails.
Evict(r, frame_id) ==
    LET init == [t         |-> r.current_timestamp + 1,
                 last_time |-> r.current_timestamp + 1,
                 frame_id  |-> frame_id,
                 succ      |-> FALSE]
        acc  == EvictLoop(r, init, DOMAIN r.evictable)
        \* times_[cur] creates the history of every entry the loop looked at
        seen == {f \in DOMAIN r.evictable : r.evictable[f]}
        r1   == [r EXCEPT !.times = [f \in DOMAIN r.times \cup seen |->
                                        MapGet(r.times, f, <<>>)]]
    IN  IF acc.succ
        THEN [succ |-> TRUE, frame_id |-> acc.frame_id,
              r |-> [r1 EXCEPT !.curr_size = @ - 1,
                               !.evictable = MapErase(@, acc.frame_id),
                               !.times = MapErase(@, acc.frame_id),
                               !.frames = @ \ {acc.frame_id}]]
        ELSE [succ |-> FALSE, frame_id |-> frame_id, r |-> r1]

RecordAccess(r, frame_id) ==
    [r EXCEPT !.frames = @ \cup {frame_id},
              !.times = MapPut(@, frame_id,
                               Append(MapGet(@, frame_id, <<>>), r.current_timestamp)),
              !.current_timestamp = @ + 1]

SetEvictable(r, frame_id, set_evictable) ==
    IF frame_id \notin r.frames THEN r
    ELSE IF MapGet(r.evictable, frame_id, FALSE) # set_evictable
    THEN [r EXCEPT !.evictable = MapPut(@, frame_id, set_evictable),
                   !.curr_size = IF set_evictable THEN @ + 1 ELSE @ - 1]
    ELSE [r EXCEPT !.evictable = MapTouch(@, frame_id, FALSE)]

Remove(r, frame_id) ==
    IF frame_id \notin r.frames THEN r
    ELSE IF ~MapGet(r.evictable, frame_id, FALSE)
    THEN [r EXCEPT !.evictable = MapTouch(@, frame_id, FALSE)]
    ELSE [r EXCEPT !.curr_size = @ - 1,
                   !.evictable = MapErase(@, frame_id),
                   !.times = MapErase(@, frame_id),
                   !.frames = @ \ {frame_id}]

Size(r) == r.curr_size

\* -------------------------------------------------- buffer pool manager
\* A Page as its constructor leaves it.
NewPageObject == [page_id |-> INVALID_PAGE_ID, pin_count |-> 0, is_dirty |-> FALSE, data |-> 0]

BufferPoolManagerInstance(pool_size, replacer_k) ==
    [pool_size    |-> pool_size,
     pages        |-> [f \in 0 .. (pool_size - 1) |-> NewPageObject],
     page_table   |-> ExtendibleHashTable(BucketSize),
     replacer     |-> LRUKReplacer(pool_size, replacer_k),
     free_list    |-> [i \in 1 .. pool_size |-> i - 1],
     pages_exist  |-> {},
     next_page_id |-> 0,
     \* the disk manager: the bytes of every page, and the ids deallocated
     disk         |-> [p \in PageIds |-> 0],
     deallocated  |-> {}]

\* What an operation hands back: the frame of the returned Page (or NoFrame),
\* the boolean result, the page id written to *page_id, and the frame the
\* replacer gave up for it.
Result(b, frame, ok, page_id, victim) ==
    [b |-> b, frame |-> frame, ok |-> ok, page_id |-> page_id, victim |-> victim]

\* AllocatePage with a fault: the counter is read and not advanced.
AllocatePageSameId(b) == [b |-> b, page_id |-> b.next_page_id]

AllocatePage(b) ==
    [b |-> [b EXCEPT !.next_page_id = @ + 1], page_id |-> b.next_page_id]

\* RecordInReplacer with a fault: the frame is not taken out of the evictable set.
RecordInReplacerAccessOnly(r, frame_id) == RecordAccess(r, frame_id)

RecordInReplacer(r, frame_id) == RecordAccess(SetEvictable(r, frame_id, FALSE), frame_id)

\* WriteBackVictim with a fault: a dirty victim is dropped without being written.
WriteBackVictimSkipped(b, frame_id, old_page_id) == b

\* if (pages_[frame_id].IsDirty()) disk_manager_->WritePage(old_page_id, data)
WriteBackVictim(b, frame_id, old_page_id) ==
    IF b.pages[frame_id].is_dirty
    THEN [b EXCEPT !.disk[old_page_id] = b.pages[frame_id].data]
    ELSE b

\* DropVictim with a fault: the victim's page stays in the page table.
DropVictimKeepEntry(b, old_page_id) == [b EXCEPT !.pages_exist = @ \ {old_page_id}]

\* pages_exist_.erase(old_page_id); page_table_->Remove(old_page_id);
DropVictim(b, old_page_id) ==
    [b EXCEPT !.pages_exist = @ \ {old_page_id},
              !.page_table = HashRemove(@, old_page_id).ht]

NewPgImp(b) ==
    IF b.free_list # <<>>
    THEN LET frame_id == Head(b.free_list)
             a  == AllocatePage([b EXCEPT !.free_list = Tail(@)])
             b1 == [a.b EXCEPT
                       !.page_table = HashInsert(@, a.page_id, frame_id),
                       !.replacer = RecordInReplacer(@, frame_id),
                       !.pages[frame_id] = [page_id |-> a.page_id, pin_count |-> 1,
                                            is_dirty |-> FALSE, data |-> 0],
                       !.pages_exist = @ \cup {a.page_id}]
         IN  Result(b1, frame_id, TRUE, a.page_id, NoFrame)
    ELSE LET e == Evict(b.replacer, NoFrame)
         IN  IF e.succ
             THEN LET frame_id == e.frame_id
                      old_page_id == b.pages[frame_id].page_id
                      a  == AllocatePage([b EXCEPT !.replacer = e.r])
                      b1 == [a.b EXCEPT
                                !.page_table = HashInsert(@, a.page_id, frame_id),
                                !.replacer = RecordInReplacer(@, frame_id)]
                      b2 == WriteBackVictim(b1, frame_id, old_page_id)
                      b3 == [b2 EXCEPT
                                !.pages[frame_id] = [page_id |-> a.page_id, pin_count |-> 1,
                                                     is_dirty |-> FALSE, data |-> 0],
                                !.pages_exist = @ \cup {a.page_id}]
                  IN  Result(DropVictim(b3, old_page_id), frame_id, TRUE, a.page_id, frame_id)
             ELSE Result([b EXCEPT !.replacer = e.r], NoFrame, FALSE, INVALID_PAGE_ID, NoFrame)

FetchPgImp(b, page_id) ==
    IF page_id \in b.pages_exist
    THEN LET found == HashFind(b.page_table, page_id)
             \* frame_id_t frame_id = 0; Find sets it when the key is there
             frame_id == IF found.found THEN found.value ELSE 0
         IN  Result([b EXCEPT !.replacer = RecordInReplacer(@, frame_id),
                              !.pages[frame_id].pin_count = @ + 1],
                    frame_id, TRUE, page_id, NoFrame)
    ELSE LET e == IF b.free_list # <<>>
                  THEN [succ |-> TRUE, frame_id |-> 0, r |-> b.replacer]
                  ELSE Evict(b.replacer, 0)
         IN  IF e.succ
             THEN LET free == b.free_list # <<>>
                      frame_id == IF free THEN Head(b.free_list) ELSE e.frame_id
                      old_page_id == b.pages[frame_id].page_id
                      b1 == IF free THEN [b EXCEPT !.free_list = Tail(@)]
                            ELSE DropVictim(
                                   WriteBackVictim([b EXCEPT !.replacer = e.r],
                                                   frame_id, old_page_id),
                                   old_page_id)
                      b2 == [b1 EXCEPT
                                !.page_table = HashInsert(@, page_id, frame_id),
                                !.replacer = RecordInReplacer(@, frame_id),
                                !.pages[frame_id] = [page_id |-> page_id, pin_count |-> 1,
                                                     is_dirty |-> FALSE,
                                                     data |-> b1.disk[page_id]],
                                !.pages_exist = @ \cup {page_id}]
                  IN  Result(b2, frame_id, TRUE, page_id, IF free THEN NoFrame ELSE frame_id)
             ELSE Result([b EXCEPT !.replacer = e.r], NoFrame, FALSE, page_id, NoFrame)

\* UnpinRejects with a fault: the pin count is not compared with 0.
UnpinRejectsAbsentOnly(b, page_id) ==
    LET frame_id == HashFind(b.page_table, page_id).value
    IN  page_id \notin b.pages_exist \/ frame_id < 0 \/ frame_id >= b.pool_size

\* The condition under which UnpinPgImp returns false. frame_id is read only
\* when the page is in pages_exist_, and then Find has set it.
UnpinRejects(b, page_id) ==
    LET frame_id == HashFind(b.page_table, page_id).value
    IN  \/ page_id \notin b.pages_exist
        \/ frame_id < 0
        \/ frame_id >= b.pool_size
        \/ b.pages[frame_id].pin_count = 0

\* UnpinDirty with a fault: the flag is assigned whatever the argument is.
UnpinDirtyAssigned(old, is_dirty) == is_dirty

\* if (is_dirty) is_dirty_ = is_dirty;
UnpinDirty(old, is_dirty) == IF is_dirty THEN is_dirty ELSE old

UnpinPgImp(b, page_id, is_dirty) ==
    IF UnpinRejects(b, page_id) THEN Result(b, NoFrame, FALSE, page_id, NoFrame)
    ELSE LET frame_id == HashFind(b.page_table, page_id).value
             b1 == [b EXCEPT !.pages[frame_id].is_dirty = UnpinDirty(@, is_dirty),
                             !.pages[frame_id].pin_count = @ - 1]
             b2 == IF b1.pages[frame_id].pin_count = 0
                   THEN [b1 EXCEPT !.replacer = SetEvictable(@, frame_id, TRUE)]
                   ELSE b1
         IN  Result(b2, frame_id, TRUE, page_id, NoFrame)

\* FlushPgImp with a fault: a page whose dirty flag is clear is not written.
FlushPgImpDirtyOnly(b, page_id) ==
    LET frame_id == HashFind(b.page_table, page_id).value
    IN  IF page_id \notin b.pages_exist \/ frame_id < 0 \/ frame_id >= b.pool_size
        THEN Result(b, NoFrame, FALSE, page_id, NoFrame)
        ELSE IF b.pages[frame_id].is_dirty
        THEN Result([b EXCEPT !.disk[page_id] = b.pages[frame_id].data,
                              !.pages[frame_id].is_dirty = FALSE],
                    frame_id, TRUE, page_id, NoFrame)
        ELSE Result(b, frame_id, TRUE, page_id, NoFrame)

FlushPgImp(b, page_id) ==
    LET frame_id == HashFind(b.page_table, page_id).value
    IN  IF page_id \notin b.pages_exist \/ frame_id < 0 \/ frame_id >= b.pool_size
        THEN Result(b, NoFrame, FALSE, page_id, NoFrame)
        ELSE Result([b EXCEPT !.disk[page_id] = b.pages[frame_id].data,
                              !.pages[frame_id].is_dirty = FALSE],
                    frame_id, TRUE, page_id, NoFrame)

\* DeleteRejects with a fault: a pinned page is deleted like any other.
DeleteRejectsNever(b, frame_id) == FALSE

\* if (pages_[frame_id].GetPinCount() != 0) return false;
DeleteRejects(b, frame_id) == b.pages[frame_id].pin_count # 0

\* FreeListPush with a fault: the frame of the deleted page is not given back.
FreeListPushLost(free_list, frame_id) == free_list

\* free_list_.emplace_back(frame_id)
FreeListPush(free_list, frame_id) == Append(free_list, frame_id)

DeletePgImp(b, page_id) ==
    IF page_id \in b.pages_exist
    THEN LET frame_id == HashFind(b.page_table, page_id).value
         IN  IF DeleteRejects(b, frame_id)
             THEN Result(b, frame_id, FALSE, page_id, NoFrame)
             ELSE Result([b EXCEPT
                            !.pages_exist = @ \ {page_id},
                            !.free_list = FreeListPush(@, frame_id),
                            !.pages[frame_id].data = 0,
                            !.pages[frame_id].pin_count = 0,
                            !.pages[frame_id].is_dirty = FALSE,
                            !.replacer = Remove(@, frame_id),
                            !.page_table = HashRemove(@, page_id).ht,
                            !.deallocated = @ \cup {page_id}],
                         frame_id, TRUE, page_id, NoFrame)
    ELSE Result(b, NoFrame, TRUE, page_id, NoFrame)

RECURSIVE FlushAllLoop(_, _)
FlushAllLoop(b, todo) ==
    IF todo = {} THEN b
    ELSE LET page_id == CHOOSE x \in todo : \A y \in todo : x <= y
             frame_id == HashFind(b.page_table, page_id).value
         IN  FlushAllLoop([b EXCEPT !.disk[page_id] = b.pages[frame_id].data,
                                    !.pages[frame_id].is_dirty = FALSE],
                          todo \ {page_id})

FlushAllPgsImp(b) == Result(FlushAllLoop(b, b.pages_exist), NoFrame, TRUE, INVALID_PAGE_ID, NoFrame)

\* ----------------------------------------------------------------- B+ tree
\* The tree lives in a buffer pool large enough to keep every page of the
\* index resident: a page is known by its page id and carries the pin count
\* and dirty flag of the frame that holds it. Pages are records
\*   [page_type, size, max_size, parent_page_id, page_id, next_page_id,
\*    array, pin_count, is_dirty]
\* and array is the part of array_ that has been written so far, slots past
\* size included; what was never written is the zeroed memory of NewPage.
HEADER_PAGE_ID == 0

\* An entry of array_ in memory that was never written.
ZeroEntry == [key |-> 0, value |-> 0]

\* array_[i]
At(array, i) == IF i >= 0 /\ i < Len(array) THEN array[i + 1] ELSE ZeroEntry

\* array_[i] = e
Put(array, i, e) ==
    [j \in 1 .. (IF i + 1 > Len(array) THEN i + 1 ELSE Len(array)) |->
        IF j = i + 1 THEN e ELSE At(array, j - 1)]

\* comparator(a, b)
Cmp(a, b) == IF a < b THEN 0 - 1 ELSE IF a > b THEN 1 ELSE 0

\* The memory of a frame NewPage hands out: zeroed, pinned once.
ZeroPage ==
    [page_type |-> "INVALID", size |-> 0, max_size |-> 0, parent_page_id |-> 0,
     page_id |-> 0, next_page_id |-> 0, array |-> <<>>,
     pin_count |-> 1, is_dirty |-> FALSE]

\* Page 0 holds the catalog of the indexes; it is no page of a tree.
HeaderPage == [ZeroPage EXCEPT !.page_type = "HEADER", !.pin_count = 0]

\* The tree as its constructor leaves it, in a pool where the header page
\* has been allocated and released.
BPlusTree(leaf_max_size, internal_max_size) ==
    [root_page_id_      |-> INVALID_PAGE_ID,
     leaf_max_size_     |-> leaf_max_size,
     internal_max_size_ |-> internal_max_size,
     pages              |-> [p \in {HEADER_PAGE_ID} |-> HeaderPage],
     header_record      |-> INVALID_PAGE_ID,
     undefined          |-> FALSE]

\* The call has left defined behaviour: it dereferences a pointer that was
\* never set, or reads a page that is no tree page as one.
Undefined(t) == [t EXCEPT !.undefined = TRUE]

Allocated(t, page_id) == page_id \in DOMAIN t.pages

\* The page a pointer obtained from the pool refers to.
PageOf(t, page_id) == IF Allocated(t, page_id) THEN t.pages[page_id] ELSE ZeroPage

SetPage(t, page_id, pg) ==
    IF Allocated(t, page_id) THEN [t EXCEPT !.pages[page_id] = pg] ELSE Undefined(t)

\* buffer_pool_manager_->NewPage(page_id): the disk manager hands out the
\* next id, the page is zeroed and pinned.
TreeNewPage(t) ==
    LET page_id == Cardinality(DOMAIN t.pages)
    IN  [t |-> [t EXCEPT !.pages = [p \in DOMAIN t.pages \cup {page_id} |->
                                       IF p = page_id THEN ZeroPage ELSE t.pages[p]]],
         page_id |-> page_id]

\* buffer_pool_manager_->FetchPage(page_id) of a resident page.
TreeFetchPage(t, page_id) ==
    IF Allocated(t, page_id)
    THEN [t EXCEPT !.pages[page_id].pin_count = @ + 1]
    ELSE Undefined(t)

\* buffer_pool_manager_->UnpinPage(page_id, is_dirty)
TreeUnpinPage(t, page_id, is_dirty) ==
    IF ~Allocated(t, page_id) \/ PageOf(t, page_id).pin_count = 0 THEN t
    ELSE [t EXCEPT !.pages[page_id].is_dirty = UnpinDirty(@, is_dirty),
                   !.pages[page_id].pin_count = @ - 1]

\* page_ptr->SetDirty(true)
SetDirty(t, page_id) ==
    IF Allocated(t, page_id) THEN [t EXCEPT !.pages[page_id].is_dirty = TRUE] ELSE t

\* ------------------------------------------------- BPlusTreePage
IsLeafPage(pg) == pg.page_type = "LEAF"
IsRootPage(pg) == pg.parent_page_id = INVALID_PAGE_ID
GetMinSize(pg) == (pg.max_size + 1) \div 2

\* The body evaluated for a value computed once.
With(value, Body(_)) == Body(value)

\* ------------------------------------------------- BPlusTreeLeafPage
\* Init does not touch next_page_id_.
LeafInit(pg, page_id, parent_id, max_size) ==
    [pg EXCEPT !.page_id = page_id, !.parent_page_id = parent_id,
               !.max_size = max_size, !.page_type = "LEAF", !.size = 0]

RECURSIVE KeyIndexLoop(_, _, _, _)
KeyIndexLoop(pg, key, left, right) ==
    IF left < right
    THEN LET mid == (right - left) \div 2 + left
             result == Cmp(key, At(pg.array, mid).key)
         IN  IF result = 0 THEN mid
             ELSE IF result = 1 THEN KeyIndexLoop(pg, key, mid + 1, right)
             ELSE KeyIndexLoop(pg, key, left, mid)
    ELSE left

KeyIndex(pg, key) == KeyIndexLoop(pg, key, 0, pg.size)

\* The entries from index up move one slot, the new one takes slot index.
ShiftIn(pg, index, key, value) ==
    LET size == pg.size
        a == IF size + 1 > Len(pg.array) THEN size + 1 ELSE Len(pg.array)
        top == IF index + 1 > a THEN index + 1 ELSE a
    IN  [pg EXCEPT
            !.array = [j \in 1 .. top |->
                         IF j - 1 = index THEN [key |-> key, value |-> value]
                         ELSE IF j - 1 > index /\ j - 1 <= size THEN At(pg.array, j - 2)
                         ELSE At(pg.array, j - 1)],
            !.size = size + 1]

\* The entries after index move one slot down; the last slot keeps its bytes.
ShiftOut(pg, index) ==
    LET size == pg.size
        top == IF size > Len(pg.array) THEN size ELSE Len(pg.array)
    IN  [pg EXCEPT
            !.array = [j \in 1 .. top |->
                         IF j - 1 >= index /\ j - 1 < size - 1 THEN At(pg.array, j)
                         ELSE At(pg.array, j - 1)],
            !.size = size - 1]

InsertAt(pg, index, key, value) == ShiftIn(pg, index, key, value)

\* comparator(KeyAt(index), key) == 0, whatever index is
LeafInsertDuplicate(pg, index, key) == Cmp(At(pg.array, index).key, key) = 0

\* Returns the page and the size Insert returns.
LeafInsert(pg, key, value) ==
    LET size == pg.size
        index == KeyIndex(pg, key)
    IN  IF size = 0 THEN [pg |-> InsertAt(pg, 0, key, value), size |-> 1]
        ELSE IF LeafInsertDuplicate(pg, index, key) THEN [pg |-> pg, size |-> size]
        ELSE [pg |-> InsertAt(pg, index, key, value), size |-> size + 1]

RemoveAt(pg, index) == ShiftOut(pg, index)

\* CopyLastFrom(item)
LeafCopyLastFrom(pg, item) == InsertAt(pg, pg.size, item.key, item.value)

\* CopyFirstFrom(item)
LeafCopyFirstFrom(pg, item) == InsertAt(pg, 0, item.key, item.value)

RECURSIVE LeafCopyNFrom(_, _, _, _)
LeafCopyNFrom(pg, items, from, size) ==
    IF size <= 0 THEN pg
    ELSE LeafCopyNFrom(LeafCopyLastFrom(pg, At(items, from)), items, from + 1, size - 1)

\* A split that moves a single entry to the recipient.
LeafMoveHalfToOne(pg, recv) ==
    [pg   |-> [pg EXCEPT !.size = pg.size - 1],
     recv |-> LeafCopyNFrom(recv, pg.array, pg.size - 1, 1)]

\* Returns this page and the recipient.
LeafMoveHalfTo(pg, recv) ==
    LET size == pg.size
        move_size == size \div 2
    IN  [pg   |-> [pg EXCEPT !.size = size - move_size],
         recv |-> LeafCopyNFrom(recv, pg.array, size - move_size, move_size)]

LeafMoveAllTo(pg, recipient) ==
    [pg   |-> [pg EXCEPT !.size = 0],
     recv |-> LeafCopyNFrom([recipient EXCEPT !.next_page_id = pg.next_page_id],
                            pg.array, 0, pg.size)]

LeafMoveFirstToEndOf(pg, recipient) ==
    [pg   |-> RemoveAt(pg, 0),
     recv |-> LeafCopyLastFrom(recipient, At(pg.array, 0))]

LeafMoveLastToFrontOf(pg, recipient) ==
    [pg   |-> RemoveAt(pg, pg.size - 1),
     recv |-> LeafCopyFirstFrom(recipient, At(pg.array, pg.size - 1))]

\* Lookup(key, &rid, comparator): a binary search for equality in the
\* entries of the page.
LeafLookup(pg, key) ==
    LET index == KeyIndex(pg, key)
    IN  IF index < pg.size /\ At(pg.array, index).key = key
        THEN [found |-> TRUE, value |-> At(pg.array, index).value]
        ELSE [found |-> FALSE, value |-> 0]

\* ------------------------------------------------- BPlusTreeInternalPage
InternalInit(pg, page_id, parent_id, max_size) ==
    [pg EXCEPT !.page_type = "INTERNAL", !.size = 0, !.page_id = page_id,
               !.parent_page_id = parent_id, !.max_size = max_size]

KeyAt(pg, index) == At(pg.array, index).key
ValueAt(pg, index) == At(pg.array, index).value
SetKeyAt(pg, index, key) ==
    [pg EXCEPT !.array = Put(@, index, [key |-> key, value |-> At(@, index).value])]
SetValueAt(pg, index, value) ==
    [pg EXCEPT !.array = Put(@, index, [key |-> At(@, index).key, value |-> value])]

RECURSIVE IndexLookupLoop(_, _, _, _)
IndexLookupLoop(pg, key, left, right) ==
    IF left < right - 1
    THEN LET mid == (right - left) \div 2 + left
             result == Cmp(key, KeyAt(pg, mid))
         IN  IF result = 0 THEN mid
             ELSE IF result = 1 THEN IndexLookupLoop(pg, key, mid + 1, right)
             ELSE IndexLookupLoop(pg, key, left, mid)
    ELSE left

IndexLookup(pg, key) ==
    IF pg.size = 1 \/ Cmp(key, KeyAt(pg, 1)) = 0 - 1 THEN 0
    ELSE IndexLookupLoop(pg, key, 1, pg.size)

Lookup(pg, key) == ValueAt(pg, IndexLookup(pg, key))

PopulateNewRoot(pg, old_value, new_key, new_value) ==
    SetValueAt(SetValueAt(SetKeyAt([pg EXCEPT !.size = 2], 1, new_key), 0, old_value),
               1, new_value)

InternalInsertAt(pg, index, new_key, new_value) == ShiftIn(pg, index, new_key, new_value)

\* for (index = 0; index <= size; ++index): the slot past the last is read too.
ValueIndex(pg, value) ==
    LET hit == {index \in 0 .. pg.size : ValueAt(pg, index) = value}
    IN  IF hit = {} THEN INVALID_PAGE_ID ELSE CHOOSE i \in hit : \A j \in hit : i <= j

\* Returns the page; the new size is its size.
InsertNodeAfter(pg, old_value, new_key, new_value) ==
    InternalInsertAt(pg, ValueIndex(pg, old_value) + 1, new_key, new_value)

InternalRemove(pg, index) == ShiftOut(pg, index)

\* Returns the page and the child.
RemoveAndReturnOnlyChild(pg) ==
    IF pg.size # 1 THEN [pg |-> pg, page_id |-> INVALID_PAGE_ID]
    ELSE [pg |-> InternalRemove(pg, 0), page_id |-> ValueAt(pg, 0)]

\* SetParentToMe that fetches and unpins the child and leaves its parent.
SetParentToMeNot(t, me, page_id) ==
    LET t1 == TreeFetchPage(t, page_id)
    IN  IF t1.undefined THEN t1
        ELSE TreeUnpinPage(t1, page_id, TRUE)

\* SetParentToMe(page_id, bpm) of the internal page me.
SetParentToMe(t, me, page_id) ==
    LET t1 == TreeFetchPage(t, page_id)
    IN  IF t1.undefined THEN t1
        ELSE TreeUnpinPage([t1 EXCEPT !.pages[page_id].parent_page_id = me], page_id, TRUE)

\* CopyLastFrom(pair, bpm) of the internal page me.
InternalCopyLastFrom(t, me, pair) ==
    LET t1 == SetParentToMe(t, me, pair.value)
    IN  IF t1.undefined THEN t1
        ELSE SetPage(t1, me, InternalInsertAt(PageOf(t1, me), PageOf(t1, me).size,
                                              pair.key, pair.value))

\* CopyFirstFrom(pair, bpm) of the internal page me.
InternalCopyFirstFrom(t, me, pair) ==
    LET t1 == SetParentToMe(t, me, pair.value)
    IN  IF t1.undefined THEN t1
        ELSE SetPage(t1, me, SetKeyAt(InternalInsertAt(PageOf(t1, me), 0, pair.key, pair.value),
                                      1, pair.key))

\* CopyNFrom(items + from, size, bpm) of the internal page me.
RECURSIVE InternalCopyNFrom(_, _, _, _, _)
InternalCopyNFrom(t, me, items, from, size) ==
    IF size <= 0 \/ t.undefined THEN t
    ELSE InternalCopyNFrom(InternalCopyLastFrom(t, me, At(items, from)),
                           me, items, from + 1, size - 1)

\* me->MoveAllTo(recipient, middle_key, bpm)
InternalMoveAllTo(t, me, recipient, middle_key) ==
    LET pg == PageOf(t, me)
        t1 == InternalCopyLastFrom(t, recipient,
                                   [key |-> middle_key, value |-> ValueAt(pg, 0)])
        t2 == InternalCopyNFrom(t1, recipient, pg.array, 1, pg.size - 1)
    IN  IF t2.undefined THEN t2 ELSE [t2 EXCEPT !.pages[me].size = 0]

\* me->MoveHalfTo(recipient, bpm)
InternalMoveHalfTo(t, me, recipient) ==
    LET pg == PageOf(t, me)
        my_size == pg.size
        move_size == my_size \div 2
        t1 == InternalCopyNFrom(t, recipient, pg.array, my_size - move_size, move_size)
    IN  IF t1.undefined THEN t1 ELSE [t1 EXCEPT !.pages[me].size = my_size - move_size]

\* me->MoveFirstToEndOf(recipient, middle_key, bpm)
InternalMoveFirstToEndOf(t, me, recipient, middle_key) ==
    LET t1 == InternalCopyLastFrom(t, recipient,
                  [key |-> middle_key, value |-> ValueAt(PageOf(t, me), 0)])
    IN  IF t1.undefined THEN t1 ELSE SetPage(t1, me, InternalRemove(PageOf(t1, me), 0))

\* me->MoveLastToFrontOf(recipient, middle_key, bpm)
InternalMoveLastToFrontOf(t, me, recipient, middle_key) ==
    LET pg == PageOf(t, me)
        t1 == InternalCopyFirstFrom(t, recipient,
                  [key |-> middle_key, value |-> ValueAt(pg, pg.size - 1)])
    IN  IF t1.undefined THEN t1
        ELSE SetPage(t1, me, InternalRemove(PageOf(t1, me), PageOf(t1, me).size - 1))

\* ------------------------------------------------- BPlusTree
IsEmpty(t) == t.root_page_id_ = INVALID_PAGE_ID

\* The header page is fetched, the record of the index is written, the page
\* is released dirty.
UpdateRootPageId(t, insert_record) ==
    TreeUnpinPage([TreeFetchPage(t, HEADER_PAGE_ID) EXCEPT !.header_record = t.root_page_id_],
                  HEADER_PAGE_ID, TRUE)

\* Returns the tree and the id of the leaf, which it leaves pinned.
RECURSIVE FindLeafLoop(_, _, _, _)
FindLeafLoop(t, key, page_id, last_page_id) ==
    LET t1 == TreeFetchPage(t, page_id)
        pg == PageOf(t1, page_id)
        t2 == IF last_page_id # INVALID_PAGE_ID
              THEN TreeUnpinPage(t1, last_page_id, FALSE) ELSE t1
    IN  IF t1.undefined \/ pg.page_type \notin {"LEAF", "INTERNAL"}
        THEN [t |-> Undefined(t1), page_id |-> INVALID_PAGE_ID]
        ELSE IF IsLeafPage(pg) THEN [t |-> t2, page_id |-> page_id]
        ELSE FindLeafLoop(t2, key, Lookup(pg, key), page_id)

FindLeafPage(t, key) ==
    IF IsEmpty(t) THEN [t |-> t, page_id |-> INVALID_PAGE_ID]
    ELSE FindLeafLoop(t, key, t.root_page_id_, INVALID_PAGE_ID)

GetValue(t, key) ==
    IF IsEmpty(t) THEN [t |-> t, ret |-> FALSE, value |-> 0]
    ELSE LET f == FindLeafPage(t, key)
             found == LeafLookup(PageOf(f.t, f.page_id), key)
         IN  IF f.t.undefined THEN [t |-> f.t, ret |-> FALSE, value |-> 0]
             ELSE [t |-> TreeUnpinPage(f.t, f.page_id, FALSE),
                   ret |-> found.found, value |-> found.value]

StartNewTree(t, key, value) ==
    LET n  == TreeNewPage(t)
        root_page_id == n.page_id
        t1 == UpdateRootPageId([n.t EXCEPT !.root_page_id_ = root_page_id], 1)
        leaf == LeafInsert(LeafInit(PageOf(t1, root_page_id), root_page_id,
                                    INVALID_PAGE_ID, t.leaf_max_size_),
                           key, value).pg
    IN  TreeUnpinPage(SetPage(t1, root_page_id, leaf), root_page_id, TRUE)

\* A split whose new page is initialised as a leaf whatever the node is.
SplitPageAsLeaf(t, node) ==
    LET n == TreeNewPage(t)
    IN  [t |-> SetPage(n.t, n.page_id,
                       LeafInit(PageOf(n.t, n.page_id), n.page_id,
                                PageOf(t, node).parent_page_id, t.leaf_max_size_)),
         page_id |-> n.page_id]

\* Returns the tree and the id of the new page, which it leaves pinned.
SplitPage(t, node) ==
    LET n == TreeNewPage(t)
        old == PageOf(t, node)
        pg == PageOf(n.t, n.page_id)
    IN  [t |-> SetPage(n.t, n.page_id,
                       IF IsLeafPage(old)
                       THEN LeafInit(pg, n.page_id, old.parent_page_id, t.leaf_max_size_)
                       ELSE InternalInit(pg, n.page_id, old.parent_page_id,
                                         t.internal_max_size_)),
         page_id |-> n.page_id]

RECURSIVE InsertIntoParent(_, _, _, _)
InsertIntoParent(t, old_node, key, new_node) ==
    IF t.undefined THEN t
    ELSE IF IsRootPage(PageOf(t, old_node))
    THEN LET n  == TreeNewPage(t)
             new_root_page_id == n.page_id
             root == PopulateNewRoot(
                         InternalInit(PageOf(n.t, new_root_page_id), new_root_page_id,
                                      INVALID_PAGE_ID, t.internal_max_size_),
                         old_node, key, new_node)
             t1 == [n.t EXCEPT !.pages[old_node].parent_page_id = new_root_page_id,
                               !.pages[new_node].parent_page_id = new_root_page_id,
                               !.pages[new_root_page_id] = root,
                               !.root_page_id_ = new_root_page_id]
         IN  TreeUnpinPage(UpdateRootPageId(t1, 0), new_root_page_id, TRUE)
    ELSE LET parent_page_id == PageOf(t, old_node).parent_page_id
             t1 == TreeFetchPage(t, parent_page_id)
             parent == InsertNodeAfter(PageOf(t1, parent_page_id), old_node, key, new_node)
             t2 == SetPage(t1, parent_page_id, parent)
         IN  IF t1.undefined THEN t1
             ELSE IF parent.size = parent.max_size
             THEN LET s  == SplitPage(t2, parent_page_id)
                      t3 == InternalMoveHalfTo(s.t, parent_page_id, s.page_id)
                      t4 == InsertIntoParent(t3, parent_page_id,
                                             KeyAt(PageOf(t3, s.page_id), 0), s.page_id)
                  IN  IF t4.undefined THEN t4
                      ELSE TreeUnpinPage(TreeUnpinPage(t4, s.page_id, TRUE),
                                         parent_page_id, TRUE)
             ELSE TreeUnpinPage(t2, parent_page_id, TRUE)

\* The end of a successful InsertIntoLeaf: page_ptr->SetDirty(true).
InsertIntoLeafRelease(t, leaf) == SetDirty(t, leaf)

\* The split of a leaf that has reached max_size.
LeafSplit(t, leaf) ==
    LET s  == SplitPage(t, leaf)
        m  == LeafMoveHalfTo(PageOf(s.t, leaf), PageOf(s.t, s.page_id))
        t1 == [s.t EXCEPT
                  !.pages[leaf] = [m.pg EXCEPT !.next_page_id = s.page_id],
                  !.pages[s.page_id] = [m.recv EXCEPT !.next_page_id = m.pg.next_page_id]]
        t2 == InsertIntoParent(t1, leaf, KeyAt(PageOf(t1, s.page_id), 0), s.page_id)
    IN  IF t2.undefined THEN t2 ELSE TreeUnpinPage(t2, s.page_id, TRUE)

\* InsertIntoLeaf once FindLeafPage has returned the leaf, which is pinned.
\* The page released on a duplicate is that leaf.
InsertIntoLeafAt(t, leaf, key, value) ==
    LET ori_size == PageOf(t, leaf).size
        ins == LeafInsert(PageOf(t, leaf), key, value)
        t1 == SetPage(t, leaf, ins.pg)
    IN  IF ins.size = ori_size
        THEN [t |-> TreeUnpinPage(t1, leaf, TRUE), ret |-> FALSE]
        ELSE IF ins.size = ins.pg.max_size
        THEN [t |-> InsertIntoLeafRelease(LeafSplit(t1, leaf), leaf), ret |-> TRUE]
        ELSE [t |-> InsertIntoLeafRelease(t1, leaf), ret |-> TRUE]

InsertIntoLeaf(t, key, value) ==
    LET f == FindLeafPage(t, key)
    IN  IF f.page_id = INVALID_PAGE_ID \/ f.t.undefined THEN [t |-> f.t, ret |-> FALSE]
        ELSE InsertIntoLeafAt(f.t, f.page_id, key, value)

Insert(t, key, value) ==
    IF IsEmpty(t) THEN [t |-> StartNewTree(t, key, value), ret |-> TRUE]
    ELSE InsertIntoLeaf(t, key, value)

\* AdjustRoot without the SetParentPageId(INVALID_PAGE_ID) of the new root.
AdjustRootKeepsParent(t, old_root_node) ==
    LET old == PageOf(t, old_root_node)
    IN  IF old.size > 1 THEN [t |-> t, ret |-> FALSE]
        ELSE IF IsLeafPage(old)
        THEN IF old.size = 1 THEN [t |-> t, ret |-> FALSE]
             ELSE [t |-> UpdateRootPageId([t EXCEPT !.root_page_id_ = INVALID_PAGE_ID], 0),
                   ret |-> TRUE]
        ELSE LET r == RemoveAndReturnOnlyChild(old)
                 new_root_id == r.page_id
                 t1 == TreeFetchPage(SetPage(t, old_root_node, r.pg), new_root_id)
                 t2 == TreeUnpinPage(t1, new_root_id, TRUE)
             IN  IF t1.undefined THEN [t |-> t1, ret |-> FALSE]
                 ELSE [t |-> UpdateRootPageId([t2 EXCEPT !.root_page_id_ = new_root_id], 0),
                       ret |-> TRUE]

\* Returns the tree and whether the root page is to be deleted.
AdjustRoot(t, old_root_node) ==
    LET old == PageOf(t, old_root_node)
    IN  IF old.size > 1 THEN [t |-> t, ret |-> FALSE]
        ELSE IF IsLeafPage(old)
        THEN IF old.size = 1 THEN [t |-> t, ret |-> FALSE]
             ELSE [t |-> UpdateRootPageId([t EXCEPT !.root_page_id_ = INVALID_PAGE_ID], 0),
                   ret |-> TRUE]
        ELSE LET r == RemoveAndReturnOnlyChild(old)
                 new_root_id == r.page_id
                 t1 == TreeFetchPage(SetPage(t, old_root_node, r.pg), new_root_id)
                 t2 == TreeUnpinPage(
                           [t1 EXCEPT !.pages[new_root_id].parent_page_id = INVALID_PAGE_ID],
                           new_root_id, TRUE)
             IN  IF t1.undefined THEN [t |-> t1, ret |-> FALSE]
                 ELSE [t |-> UpdateRootPageId([t2 EXCEPT !.root_page_id_ = new_root_id], 0),
                       ret |-> TRUE]

\* Redistribute(neighbor_node, node, index)
Redistribute(t, neighbor_node, node, index) ==
    LET parent_page_id == PageOf(t, node).parent_page_id
    IN
    With(TreeFetchPage(t, parent_page_id), LAMBDA t1 :
    LET parent == PageOf(t1, parent_page_id)
        nb == PageOf(t1, neighbor_node)
        nd == PageOf(t1, node)
        node_index == ValueIndex(parent, IF index = 0 THEN neighbor_node ELSE node)
    IN
    With(IF IsLeafPage(nd)
         THEN With(IF index = 0 THEN LeafMoveFirstToEndOf(nb, nd)
                                ELSE LeafMoveLastToFrontOf(nb, nd), LAMBDA m :
              IF node_index < 0 THEN Undefined(t1)
              ELSE [t1 EXCEPT
                      !.pages[neighbor_node] = m.pg,
                      !.pages[node] = m.recv,
                      !.pages[parent_page_id] =
                          SetKeyAt(parent, node_index,
                                   KeyAt(IF index = 0 THEN m.pg ELSE m.recv, 0))])
         ELSE LET middle_key == KeyAt(parent, node_index)
                  next_middle_key == KeyAt(nb, IF index = 0 THEN 1 ELSE nb.size - 1)
              IN
              With(IF index = 0
                   THEN InternalMoveFirstToEndOf(t1, neighbor_node, node, middle_key)
                   ELSE InternalMoveLastToFrontOf(t1, neighbor_node, node, middle_key),
                   LAMBDA t2 :
                   IF node_index < 0 \/ t2.undefined THEN Undefined(t2)
                   ELSE [t2 EXCEPT !.pages[parent_page_id] =
                            SetKeyAt(@, node_index, next_middle_key)]),
         LAMBDA moved :
         IF t1.undefined \/ moved.undefined THEN Undefined(moved)
         ELSE TreeUnpinPage(moved, parent_page_id, TRUE)))

\* Both return the tree and their boolean.
RECURSIVE CoalesceOrRedistribute(_, _)
RECURSIVE Coalesce(_, _, _, _, _)
Coalesce(t, neighbor_node, node, parent, index) ==
    With(IF IsLeafPage(PageOf(t, node))
         THEN With(LeafMoveAllTo(PageOf(t, node), PageOf(t, neighbor_node)), LAMBDA m :
                   [t EXCEPT !.pages[node] = m.pg, !.pages[neighbor_node] = m.recv])
         ELSE InternalMoveAllTo(t, node, neighbor_node, KeyAt(PageOf(t, parent), index)),
         LAMBDA t1 :
         IF t1.undefined THEN [t |-> t1, ret |-> FALSE]
         ELSE With(SetPage(t1, parent, InternalRemove(PageOf(t1, parent), index)),
                   LAMBDA t2 :
                   IF PageOf(t2, parent).size < GetMinSize(PageOf(t2, parent))
                   THEN CoalesceOrRedistribute(t2, parent)
                   ELSE [t |-> t2, ret |-> FALSE]))

CoalesceOrRedistribute(t, node) ==
    IF IsRootPage(PageOf(t, node)) THEN AdjustRoot(t, node)
    ELSE
    LET parent_page_id == PageOf(t, node).parent_page_id
    IN
    With(TreeFetchPage(t, parent_page_id), LAMBDA t1 :
    LET parent == PageOf(t1, parent_page_id)
        node_index == ValueIndex(parent, node)
        has_prev == node_index > 0
        prev_page_id == IF has_prev THEN ValueAt(parent, node_index - 1) ELSE INVALID_PAGE_ID
        has_next == node_index # parent.size - 1
        next_page_id == IF has_next THEN ValueAt(parent, node_index + 1) ELSE INVALID_PAGE_ID
    IN
    With(IF has_prev THEN TreeFetchPage(t1, prev_page_id) ELSE t1, LAMBDA t2 :
    IF t1.undefined \/ t2.undefined THEN [t |-> Undefined(t2), ret |-> FALSE]
    ELSE IF has_prev /\ PageOf(t2, prev_page_id).size > GetMinSize(PageOf(t2, prev_page_id))
    THEN With(Redistribute(t2, prev_page_id, node, 1), LAMBDA r :
              [t |-> IF r.undefined THEN r
                     ELSE TreeUnpinPage(TreeUnpinPage(r, parent_page_id, TRUE),
                                        prev_page_id, TRUE),
               ret |-> FALSE])
    ELSE
    With(IF has_next THEN TreeFetchPage(t2, next_page_id) ELSE t2, LAMBDA t3 :
    IF t3.undefined THEN [t |-> t3, ret |-> FALSE]
    ELSE IF has_next /\ PageOf(t3, next_page_id).size > GetMinSize(PageOf(t3, next_page_id))
    THEN With(Redistribute(t3, next_page_id, node, 0), LAMBDA r :
              [t |-> IF r.undefined THEN r
                     ELSE TreeUnpinPage(
                              IF node_index > 0
                              THEN TreeUnpinPage(TreeUnpinPage(r, parent_page_id, TRUE),
                                                 prev_page_id, FALSE)
                              ELSE TreeUnpinPage(r, parent_page_id, TRUE),
                              next_page_id, TRUE),
               ret |-> FALSE])
    ELSE IF prev_page_id # INVALID_PAGE_ID
    THEN With(Coalesce(t3, prev_page_id, node, parent_page_id, node_index), LAMBDA c :
              [t |-> IF c.t.undefined THEN c.t
                     ELSE IF next_page_id # INVALID_PAGE_ID
                     THEN TreeUnpinPage(
                              TreeUnpinPage(TreeUnpinPage(c.t, parent_page_id, TRUE),
                                            prev_page_id, TRUE),
                              next_page_id, FALSE)
                     ELSE TreeUnpinPage(TreeUnpinPage(c.t, parent_page_id, TRUE),
                                        prev_page_id, TRUE),
               ret |-> TRUE])
    \* next_node is read though it was never set
    ELSE IF ~has_next THEN [t |-> Undefined(t3), ret |-> FALSE]
    ELSE With(Coalesce(t3, node, next_page_id, parent_page_id, node_index + 1), LAMBDA c :
              [t |-> IF c.t.undefined THEN c.t
                     ELSE TreeUnpinPage(TreeUnpinPage(c.t, parent_page_id, TRUE),
                                        next_page_id, TRUE),
               ret |-> FALSE]))))

\* leaf_ptr->KeyAt(index) == key, whatever index is
RemoveFinds(pg, index, key) == KeyAt(pg, index) = key

\* Remove(key): returns the tree.
BPlusTreeRemove(t, key) ==
    IF IsEmpty(t) THEN t
    ELSE
    With(FindLeafPage(t, key), LAMBDA f :
    LET leaf == f.page_id
        pg == PageOf(f.t, leaf)
        index == KeyIndex(pg, key)
    IN
    IF f.t.undefined THEN f.t
    ELSE IF ~RemoveFinds(pg, index, key) THEN f.t
    ELSE
    With(SetPage(f.t, leaf, RemoveAt(pg, index)), LAMBDA t1 :
    With(IF PageOf(t1, leaf).size < GetMinSize(PageOf(t1, leaf))
         THEN CoalesceOrRedistribute(t1, leaf)
         ELSE [t |-> t1, ret |-> FALSE], LAMBDA c :
         IF c.t.undefined THEN c.t
         ELSE IF ~c.ret THEN SetDirty(c.t, leaf)
         ELSE c.t)))

\* ----------------------------------------------------------------- trie
\* The characters of keys; the root node carries '\0'.
Chars == 1 .. NumChars
NulChar == 0
\* The value a GetValue that finds nothing returns: T{}.
DefaultValue == 0
TrieValues == 1 .. MaxTrieValue

\* No children: an empty unordered_map.
NoChildren == [c \in {} |-> 0]

\* TrieNode(key_char); value is <<v>> for a TrieNodeWithValue, <<>> otherwise.
TrieNode(key_char) ==
    [key_char |-> key_char, is_end |-> FALSE, value |-> <<>>, children |-> NoChildren]

\* TrieNodeWithValue(key_char, value)
TrieNodeWithValue(key_char, value) ==
    [key_char |-> key_char, is_end |-> TRUE, value |-> <<value>>, children |-> NoChildren]

\* The converting constructor with a fault: the children do not move over.
TrieNodeWithValueAlone(node, value) ==
    [key_char |-> node.key_char, is_end |-> TRUE, value |-> <<value>>,
     children |-> NoChildren]

\* TrieNodeWithValue(TrieNode &&trieNode, value): the children, the flag and
\* the character move over, then the value is set and the node ends a key.
TrieNodeWithValueFrom(node, value) ==
    [key_char |-> node.key_char, is_end |-> TRUE, value |-> <<value>>,
     children |-> node.children]

\* TrieNode(TrieNode &&other): a plain node with the other's members.
TrieNodeFrom(node) ==
    [key_char |-> node.key_char, is_end |-> node.is_end, value |-> <<>>,
     children |-> node.children]

\* What a node is after its members were moved out of it.
MovedFrom(node) == [node EXCEPT !.children = NoChildren]

HasChild(node, key_char) == key_char \in DOMAIN node.children
HasChildren(node) == DOMAIN node.children # {}
IsEndNode(node) == node.is_end
SetEndNode(node, is_end) == [node EXCEPT !.is_end = is_end]

InsertChildNode(node, key_char, child) ==
    IF HasChild(node, key_char) \/ child.key_char # key_char THEN node
    ELSE [node EXCEPT !.children = MapPut(@, key_char, child)]

\* The child and everything below it is deleted.
RemoveChildNode(node, key_char) ==
    IF HasChild(node, key_char)
    THEN [node EXCEPT !.children = MapErase(@, key_char)]
    ELSE node

\* The node put back where the walk found it: *t written through the pointer.
SetChild(node, key_char, child) == [node EXCEPT !.children = MapPut(@, key_char, child)]

\* Trie(): a root node with '\0'.
Trie == [root_ |-> TrieNode(NulChar)]

\* The loop of Insert from position i (1-based) at node t.
RECURSIVE TrieInsertLoop(_, _, _, _)
TrieInsertLoop(t, key, i, value) ==
    LET c == key[i]
    IN  IF i = Len(key)
        THEN IF HasChild(t, c)
             THEN IF ~IsEndNode(t.children[c])
                  THEN LET twv == TrieNodeWithValueFrom(t.children[c], value)
                           t1  == SetChild(t, c, MovedFrom(t.children[c]))
                       IN  [node    |-> InsertChildNode(RemoveChildNode(t1, c), c, twv),
                            success |-> TRUE]
                  ELSE [node |-> t, success |-> FALSE]
             ELSE [node    |-> InsertChildNode(t, c, TrieNodeWithValue(c, value)),
                   success |-> TRUE]
        ELSE LET t1 == IF HasChild(t, c) THEN t ELSE InsertChildNode(t, c, TrieNode(c))
                 r  == TrieInsertLoop(t1.children[c], key, i + 1, value)
             IN  [node |-> SetChild(t1, c, r.node), success |-> r.success]

\* Insert(key, value)
TrieInsert(trie, key, value) ==
    IF Len(key) # 0
    THEN LET r == TrieInsertLoop(trie.root_, key, 1, value)
         IN  [trie |-> [trie EXCEPT !.root_ = r.node], success |-> r.success]
    ELSE [trie |-> trie, success |-> FALSE]

\* What Remove returns once the walk has reached the last node of the key.
TrieRemoveReturns(child) == TRUE

\* Both loops of Remove from position i at node t = v[i-1]: found tells that
\* the walk reached the last character, pruned that v[i] was removed.
RECURSIVE TrieRemoveLoop(_, _, _)
TrieRemoveLoop(t, key, i) ==
    LET c == key[i]
    IN  IF ~HasChild(t, c) THEN [node |-> t, found |-> FALSE, pruned |-> FALSE, ret |-> FALSE]
        ELSE IF i = Len(key)
        THEN LET new_node == TrieNodeFrom(SetEndNode(t.children[c], FALSE))
                 t1 == SetChild(t, c, MovedFrom(t.children[c]))
                 t2 == InsertChildNode(RemoveChildNode(t1, new_node.key_char),
                                       new_node.key_char, new_node)
                 keep == HasChildren(new_node) \/ IsEndNode(new_node)
             IN  [node   |-> IF keep THEN t2 ELSE RemoveChildNode(t2, c),
                  found  |-> TRUE,
                  pruned |-> ~keep,
                  ret    |-> TrieRemoveReturns(t.children[c])]
        ELSE LET r == TrieRemoveLoop(t.children[c], key, i + 1)
                 t1 == SetChild(t, c, r.node)
                 keep == ~r.pruned \/ HasChildren(r.node) \/ IsEndNode(r.node)
             IN  IF ~r.found THEN [node |-> t, found |-> FALSE, pruned |-> FALSE, ret |-> FALSE]
                 ELSE [node   |-> IF keep THEN t1 ELSE RemoveChildNode(t1, c),
                       found  |-> TRUE,
                       pruned |-> ~keep,
                       ret    |-> r.ret]

\* Remove(key)
TrieRemove(trie, key) ==
    IF Len(key) = 0 THEN [trie |-> trie, success |-> FALSE]
    ELSE LET r == TrieRemoveLoop(trie.root_, key, 1)
         IN  [trie |-> [trie EXCEPT !.root_ = r.node], success |-> r.ret]

\* The loop of GetValue: the value of the node the key ends at when that
\* node is a TrieNodeWithValue, T{} otherwise.
RECURSIVE TrieGetValueLoop(_, _, _)
TrieGetValueLoop(t, key, i) ==
    LET c == key[i]
    IN  IF ~HasChild(t, c) THEN DefaultValue
        ELSE IF i = Len(key)
        THEN IF t.children[c].value # <<>> THEN t.children[c].value[1] ELSE DefaultValue
        ELSE TrieGetValueLoop(t.children[c], key, i + 1)

\* GetValue(key, success): no path of the function writes *success.
TrieGetValue(trie, key, success) ==
    [value   |-> IF Len(key) = 0 THEN DefaultValue ELSE TrieGetValueLoop(trie.root_, key, 1),
     success |-> success]

\* ------------------------------------------------------------ the system
VARIABLES
    bpm,        \* the BufferPoolManagerInstance, its page table, replacer and disk
    issued,     \* the page ids NewPage has returned so far
    durable,    \* per page: the bytes last released with UnpinPage(p, true), if known
    latch_,     \* the thread holding the pool's latch_, or NoThread
    view,       \* per thread inside an operation: the pool as it found it
    ret,        \* per thread: page id and frame of its last successful NewPage
    lru_k,      \* an LRUKReplacer used on its own
    hash_table, \* an ExtendibleHashTable used on its own
    shadow,     \* the finite map the calls on hash_table describe
    removed,    \* a Remove call on hash_table has taken a key out
    b_plus_tree, \* a BPlusTree and the pages of its buffer pool
    calls,      \* the number of Insert and of Remove calls made on b_plus_tree
    trie,       \* a Trie used on its own
    stored,     \* the keys inserted into trie and not removed since, with their values
    got,        \* what the last GetValue on trie handed back
    writers,    \* per thread inside Insert on b_plus_tree: where it is and what it holds
    returned,   \* per key of a completed concurrent Insert: what the call returned
    mid,        \* the Insert in progress on hash_table under latch_2_, if any
    seen        \* what the last introspection call on hash_table found

poolVars == <<bpm, issued, durable>>
threadVars == <<latch_, view, ret>>
replacerVars == <<lru_k>>
tableVars == <<hash_table, shadow, removed>>
treeVars == <<b_plus_tree, calls>>
trieVars == <<trie, stored, got>>
writerVars == <<writers, returned>>
raceVars == <<mid, seen>>
vars == <<poolVars, threadVars, replacerVars, tableVars, treeVars, trieVars, writerVars,
         raceVars>>

\* A thread that is in no Insert call on the tree.
Outside == [pc |-> "idle", key |-> 0, value |-> 0, leaf |-> INVALID_PAGE_ID]

\* Nothing is known of the bytes a page was released with.
Unknown == {}

\* latch_ when no thread holds it.
NoThread == 0

Init ==
    /\ bpm = BufferPoolManagerInstance(PoolSize, ReplacerK)
    /\ issued = {}
    /\ durable = [p \in PageIds |-> Unknown]
    /\ latch_ = NoThread
    /\ view = [t \in Threads |-> <<>>]
    /\ ret = [t \in Threads |-> <<>>]
    /\ lru_k = LRUKReplacer(PoolSize, ReplacerK)
    /\ hash_table = ExtendibleHashTable(TableBucketSize)
    /\ shadow = <<>>
    /\ removed = FALSE
    /\ b_plus_tree = BPlusTree(LeafMaxSize, InternalMaxSize)
    /\ calls = [insert |-> 0, remove |-> 0]
    /\ trie = Trie
    /\ stored = <<>>
    /\ got = [value |-> DefaultValue, success |-> FALSE]
    /\ writers = [w \in Threads |-> Outside]
    /\ returned = <<>>
    /\ mid = NoInsert
    /\ seen = [global_depth |-> 0, valid |-> TRUE, during |-> FALSE]

\* A call on the pool from a single caller leaves the rest alone.
PoolOnly == UNCHANGED <<threadVars, replacerVars, tableVars, treeVars, trieVars, writerVars, raceVars>>

\* The frame holding a page of the pool, by the page table.
FrameOf(b, page_id) == HashFind(b.page_table, page_id).value

\* The page ids callers pass: those allocated so far and one that is not.
Callable == {p \in PageIds : p <= bpm.next_page_id}

NewPage ==
    /\ PoolOnly
    /\ bpm.replacer.current_timestamp < MaxTimestamp
    /\ LET res == NewPgImp(bpm)
       IN  /\ bpm' = res.b
           /\ issued' = IF res.frame # NoFrame THEN issued \cup {res.page_id} ELSE issued
           /\ UNCHANGED durable

\* A caller fetches a page the disk manager has allocated.
FetchPage ==
    /\ PoolOnly
    /\ bpm.replacer.current_timestamp < MaxTimestamp
    /\ \E page_id \in 0 .. (bpm.next_page_id - 1) :
          /\ bpm' = FetchPgImp(bpm, page_id).b
          /\ UNCHANGED <<issued, durable>>

UnpinPage ==
    /\ PoolOnly
    /\ \E page_id \in Callable, is_dirty \in BOOLEAN :
       LET res == UnpinPgImp(bpm, page_id, is_dirty)
       IN  /\ bpm' = res.b
           /\ durable' = IF res.ok /\ is_dirty
                         THEN [durable EXCEPT ![page_id] = {bpm.pages[res.frame].data}]
                         ELSE durable
           /\ UNCHANGED issued

FlushPage ==
    /\ PoolOnly
    /\ \E page_id \in Callable :
       /\ bpm' = FlushPgImp(bpm, page_id).b
       /\ UNCHANGED <<issued, durable>>

FlushAllPages ==
    /\ PoolOnly
    /\ bpm' = FlushAllPgsImp(bpm).b
    /\ UNCHANGED <<issued, durable>>

\* Deleting a page forgets what was released for it.
DeletePage ==
    /\ PoolOnly
    /\ \E page_id \in Callable :
       LET res == DeletePgImp(bpm, page_id)
       IN  /\ bpm' = res.b
           /\ durable' = IF res.ok /\ page_id \in bpm.pages_exist
                         THEN [durable EXCEPT ![page_id] = Unknown]
                         ELSE durable
           /\ UNCHANGED issued

\* A holder of a pinned page writes its bytes through Page::GetData().
WriteData ==
    /\ PoolOnly
    /\ \E page_id \in bpm.pages_exist, d \in Data :
       LET frame_id == FrameOf(bpm, page_id)
       IN  /\ bpm.pages[frame_id].pin_count > 0
           /\ bpm.pages[frame_id].data # d
           /\ bpm' = [bpm EXCEPT !.pages[frame_id].data = d]
           /\ durable' = [durable EXCEPT ![page_id] = Unknown]
           /\ UNCHANGED issued

\* The operations of the buffer pool manager.
Next ==
    \/ NewPage
    \/ FetchPage
    \/ UnpinPage
    \/ FlushPage
    \/ FlushAllPages
    \/ DeletePage

Spec == Init /\ [][Next]_vars

\* The operations together with the holders' writes to page memory.
NextData ==
    \/ NewPage
    \/ FetchPage
    \/ UnpinPage
    \/ FlushPage
    \/ FlushAllPages
    \/ DeletePage
    \/ WriteData

SpecData == Init /\ [][NextData]_vars

\* ---------------------------------------------------- threads and latch_
\* LatchAvailable with a fault: lock() returns whoever holds the mutex.
LatchAvailableAlways(latch) == TRUE

\* std::mutex::lock returns once no thread holds the mutex.
LatchAvailable(latch) == latch = NoThread

\* The thread is between the constructor and the destructor of its lock.
Inside(t) == view[t] # <<>>

\* std::scoped_lock<std::mutex> lock(latch_): the thread enters an operation
\* and reads the fields of the pool from here on.
LatchLock(t) ==
    /\ ~Inside(t)
    /\ LatchAvailable(latch_)
    /\ latch_' = t
    /\ view' = [view EXCEPT ![t] = <<bpm>>]
    /\ UNCHANGED <<poolVars, ret, replacerVars, tableVars, treeVars, trieVars, writerVars, raceVars>>

\* The return of an operation: what it wrote is in the fields of the pool,
\* and the destructor of lock releases latch_.
LatchUnlock(t, b) ==
    /\ bpm' = b
    /\ latch_' = NoThread
    /\ view' = [view EXCEPT ![t] = <<>>]
    /\ UNCHANGED <<issued, durable, replacerVars, tableVars, treeVars, trieVars, writerVars, raceVars>>

\* The page ids a thread passes: those allocated when it entered, and the next.
CallableBy(t) == {p \in PageIds : p <= view[t][1].next_page_id}

LockedNewPage(t) ==
    /\ Inside(t)
    /\ view[t][1].replacer.current_timestamp < MaxTimestamp
    /\ LET res == NewPgImp(view[t][1])
       IN  /\ LatchUnlock(t, res.b)
           /\ ret' = IF res.frame # NoFrame
                     THEN [ret EXCEPT ![t] = <<res.page_id, res.frame>>]
                     ELSE ret

LockedFetchPage(t) ==
    /\ Inside(t)
    /\ view[t][1].replacer.current_timestamp < MaxTimestamp
    /\ \E page_id \in 0 .. (view[t][1].next_page_id - 1) :
          LatchUnlock(t, FetchPgImp(view[t][1], page_id).b)
    /\ UNCHANGED ret

LockedUnpinPage(t) ==
    /\ Inside(t)
    /\ \E page_id \in CallableBy(t), is_dirty \in BOOLEAN :
          LatchUnlock(t, UnpinPgImp(view[t][1], page_id, is_dirty).b)
    /\ UNCHANGED ret

LockedFlushPage(t) ==
    /\ Inside(t)
    /\ \E page_id \in CallableBy(t) :
          LatchUnlock(t, FlushPgImp(view[t][1], page_id).b)
    /\ UNCHANGED ret

LockedDeletePage(t) ==
    /\ Inside(t)
    /\ \E page_id \in CallableBy(t) :
          LatchUnlock(t, DeletePgImp(view[t][1], page_id).b)
    /\ UNCHANGED ret

\* Threads calling NewPage, FetchPage, UnpinPage, FlushPage and DeletePage.
NextThreads ==
    \E t \in Threads :
       \/ LatchLock(t)
       \/ LockedNewPage(t)
       \/ LockedFetchPage(t)
       \/ LockedUnpinPage(t)
       \/ LockedFlushPage(t)
       \/ LockedDeletePage(t)

SpecThreads == Init /\ [][NextThreads]_vars

\* ------------------------------------------------ the replacer on its own
\* BUSTUB_ASSERT(frame_id <= static_cast<int>(replacer_size_), ...): the
\* condition under which the call goes on.
FrameIdAssert(r, frame_id) == frame_id <= r.replacer_size

\* The calls that end in a failed assertion. Remove comes to its assertion
\* only past the early return.
RecordAccessAborts(r, frame_id) == ~FrameIdAssert(r, frame_id)
SetEvictableAborts(r, frame_id) == ~FrameIdAssert(r, frame_id)
RemoveAborts(r, frame_id) ==
    /\ frame_id \in r.frames
    /\ MapGet(r.evictable, frame_id, FALSE)
    /\ ~FrameIdAssert(r, frame_id)

\* Callers pass the frame ids of the contract, 0 .. num_frames - 1.
ReplacerRecordAccess ==
    /\ lru_k.current_timestamp < MaxTimestamp
    /\ \E frame_id \in Frames :
          /\ ~RecordAccessAborts(lru_k, frame_id)
          /\ lru_k' = RecordAccess(lru_k, frame_id)
    /\ UNCHANGED <<poolVars, threadVars, tableVars, treeVars, trieVars, writerVars, raceVars>>

ReplacerSetEvictable ==
    /\ \E frame_id \in Frames, set_evictable \in BOOLEAN :
          /\ ~SetEvictableAborts(lru_k, frame_id)
          /\ lru_k' = SetEvictable(lru_k, frame_id, set_evictable)
    /\ UNCHANGED <<poolVars, threadVars, tableVars, treeVars, trieVars, writerVars, raceVars>>

ReplacerEvict ==
    /\ lru_k' = Evict(lru_k, NoFrame).r
    /\ UNCHANGED <<poolVars, threadVars, tableVars, treeVars, trieVars, writerVars, raceVars>>

ReplacerRemove ==
    /\ \E frame_id \in Frames :
          /\ ~RemoveAborts(lru_k, frame_id)
          /\ lru_k' = Remove(lru_k, frame_id)
    /\ UNCHANGED <<poolVars, threadVars, tableVars, treeVars, trieVars, writerVars, raceVars>>

NextReplacer ==
    \/ ReplacerRecordAccess
    \/ ReplacerSetEvictable
    \/ ReplacerEvict
    \/ ReplacerRemove

SpecReplacer == Init /\ [][NextReplacer]_vars

\* ---------------------------------------------- the hash table on its own
\* Insert(key, value), for a table that holds MaxEntries keys at most.
TableInsert ==
    /\ \E key \in Keys, value \in Frames :
          /\ key \in DOMAIN shadow \/ Cardinality(DOMAIN shadow) < MaxEntries
          /\ hash_table' = HashInsert(hash_table, key, value)
          /\ shadow' = MapPut(shadow, key, value)
    /\ UNCHANGED <<removed, poolVars, threadVars, replacerVars, treeVars, trieVars, writerVars, raceVars>>

TableRemove ==
    /\ \E key \in Keys :
          LET r == HashRemove(hash_table, key)
          IN  /\ hash_table' = r.ht
              /\ shadow' = MapErase(shadow, key)
              /\ removed' = (removed \/ r.success)
    /\ UNCHANGED <<poolVars, threadVars, replacerVars, treeVars, trieVars, writerVars, raceVars>>

NextTable ==
    \/ TableInsert
    \/ TableRemove

SpecTable == Init /\ [][NextTable]_vars

\* ------------------------------------------------ the B+ tree on its own
\* The leaf_max_size a tree is constructed with.
LeafSizes == {LeafMaxSize, LeafMaxSize + 1}

\* BPlusTree(name, buffer_pool_manager, comparator, leaf_max_size,
\* internal_max_size): the tree is constructed anew before its first call.
TreeConstruct ==
    /\ calls.insert = 0 /\ calls.remove = 0
    /\ \E leaf_max_size \in LeafSizes :
          b_plus_tree' = BPlusTree(leaf_max_size, InternalMaxSize)
    /\ UNCHANGED <<calls, poolVars, threadVars, replacerVars, tableVars, trieVars, writerVars, raceVars>>

\* A call that leaves defined behaviour does not complete.
TreeInsert ==
    /\ calls.insert < MaxInserts
    /\ \E key \in TreeKeys, value \in RIDs :
          LET r == Insert(b_plus_tree, key, value)
          IN  /\ ~r.t.undefined
              /\ b_plus_tree' = r.t
    /\ calls' = [calls EXCEPT !.insert = @ + 1]
    /\ UNCHANGED <<poolVars, threadVars, replacerVars, tableVars, trieVars, writerVars, raceVars>>

TreeRemove ==
    /\ calls.remove < MaxRemoves
    /\ \E key \in TreeKeys :
          LET t == BPlusTreeRemove(b_plus_tree, key)
          IN  /\ ~t.undefined
              /\ b_plus_tree' = t
    /\ calls' = [calls EXCEPT !.remove = @ + 1]
    /\ UNCHANGED <<poolVars, threadVars, replacerVars, tableVars, trieVars, writerVars, raceVars>>

TreeGetValue ==
    /\ \E key \in TreeKeys :
          LET r == GetValue(b_plus_tree, key)
          IN  /\ ~r.t.undefined
              /\ b_plus_tree' = r.t
    /\ UNCHANGED <<calls, poolVars, threadVars, replacerVars, tableVars, trieVars, writerVars, raceVars>>

NextTree ==
    \/ TreeConstruct
    \/ TreeInsert
    \/ TreeRemove
    \/ TreeGetValue

SpecTree == Init /\ [][NextTree]_vars

\* ----------------------------------------------------- the trie on its own
\* The keys of the calls: the strings of MaxKeyLen characters at most.
TrieKeys == UNION {[1 .. n -> Chars] : n \in 0 .. MaxKeyLen}

\* Insert(key, value), for a trie that holds MaxStored keys at most.
TrieInsertCall ==
    /\ \E key \in TrieKeys, value \in TrieValues :
          /\ key \in DOMAIN stored \/ Cardinality(DOMAIN stored) < MaxStored
          /\ trie' = TrieInsert(trie, key, value).trie
          /\ stored' = IF key = <<>> \/ key \in DOMAIN stored THEN stored
                       ELSE MapPut(stored, key, value)
    /\ UNCHANGED <<got, poolVars, threadVars, replacerVars, tableVars, treeVars, writerVars, raceVars>>

TrieRemoveCall ==
    /\ \E key \in TrieKeys :
          /\ trie' = TrieRemove(trie, key).trie
          /\ stored' = MapErase(stored, key)
    /\ UNCHANGED <<got, poolVars, threadVars, replacerVars, tableVars, treeVars, writerVars, raceVars>>

\* GetValue(key, &success) with whatever the caller's flag held.
TrieGetValueCall ==
    /\ \E key \in TrieKeys, success \in BOOLEAN :
          got' = TrieGetValue(trie, key, success)
    /\ UNCHANGED <<trie, stored, poolVars, threadVars, replacerVars, tableVars, treeVars, writerVars, raceVars>>

NextTrie ==
    \/ TrieInsertCall
    \/ TrieRemoveCall
    \/ TrieGetValueCall

SpecTrie == Init /\ [][NextTrie]_vars

\* --------------------------------------- concurrent writers of one B+ tree
\* The keys that are in the tree or on their way into it.
Written == DOMAIN returned \cup {writers[w].key : w \in Threads}

\* A thread may enter Insert whatever the other threads do: no function of
\* the tree takes a latch.
WriterMayEnter(w) == TRUE

\* Insert(key, value) up to the point where the thread has tested IsEmpty()
\* and, in a tree that is not empty, FindLeafPage has returned the leaf.
WriterEnter(w) ==
    /\ writers[w].pc = "idle"
    /\ WriterMayEnter(w)
    /\ ~b_plus_tree.undefined
    /\ calls.insert < MaxWrites
    /\ \E key \in TreeKeys \ Written, value \in RIDs :
          IF IsEmpty(b_plus_tree)
          THEN /\ writers' = [writers EXCEPT ![w] =
                     [pc |-> "empty", key |-> key, value |-> value, leaf |-> INVALID_PAGE_ID]]
               /\ UNCHANGED b_plus_tree
          ELSE LET f == FindLeafPage(b_plus_tree, key)
               IN  /\ writers' = [writers EXCEPT ![w] =
                         [pc |-> "found", key |-> key, value |-> value, leaf |-> f.page_id]]
                   /\ b_plus_tree' = f.t
    /\ calls' = [calls EXCEPT !.insert = @ + 1]
    /\ UNCHANGED <<returned, poolVars, threadVars, replacerVars, tableVars, trieVars, raceVars>>

\* The rest of Insert in a tree the thread found empty: StartNewTree.
WriterStartNewTree(w) ==
    /\ writers[w].pc = "empty"
    /\ ~b_plus_tree.undefined
    /\ b_plus_tree' = StartNewTree(b_plus_tree, writers[w].key, writers[w].value)
    /\ returned' = MapPut(returned, writers[w].key, TRUE)
    /\ writers' = [writers EXCEPT ![w] = Outside]
    /\ UNCHANGED <<calls, poolVars, threadVars, replacerVars, tableVars, trieVars, raceVars>>

\* The rest of InsertIntoLeaf on the leaf the thread holds.
WriterInsertIntoLeaf(w) ==
    /\ writers[w].pc = "found"
    /\ ~b_plus_tree.undefined
    /\ LET r == IF writers[w].leaf = INVALID_PAGE_ID
                THEN [t |-> b_plus_tree, ret |-> FALSE]
                ELSE InsertIntoLeafAt(b_plus_tree, writers[w].leaf,
                                      writers[w].key, writers[w].value)
       IN  /\ b_plus_tree' = r.t
           /\ returned' = MapPut(returned, writers[w].key, r.ret)
    /\ writers' = [writers EXCEPT ![w] = Outside]
    /\ UNCHANGED <<calls, poolVars, threadVars, replacerVars, tableVars, trieVars, raceVars>>

NextWriters ==
    \/ \E w \in Threads : WriterEnter(w)
    \/ \E w \in Threads : WriterStartNewTree(w)
    \/ \E w \in Threads : WriterInsertIntoLeaf(w)

SpecWriters == Init /\ [][NextWriters]_vars

\* ------------------------- introspection of a hash table during an Insert
\* Insert, Remove and Find lock latch_2_: one of them runs at a time.
Latch2Free == mid.holder = NoThread

\* GetGlobalDepth, GetLocalDepth and GetNumBuckets lock latch_, which no
\* other function locks: they run whatever Insert, Remove and Find do.
IntrospectionMayEnter == TRUE

\* Insert(key, value): latch_2_.lock() and the entry of InsertImp.
RaceInsertEnter(t) ==
    /\ Latch2Free
    /\ \E key \in Keys :
          /\ key \in HashKeys(hash_table) \/ Cardinality(HashKeys(hash_table)) < MaxEntries
          /\ mid' = [NoInsert EXCEPT !.holder = t, !.pc = "try", !.key = key]
    /\ UNCHANGED <<seen, poolVars, threadVars, replacerVars, tableVars, treeVars, trieVars,
                   writerVars>>

\* One statement of InsertImp; the call that ends unlocks latch_2_.
RaceInsertStep(t) ==
    /\ mid.holder = t
    /\ LET r == InsertImpStep(hash_table, mid)
       IN  /\ hash_table' = r.ht
           /\ mid' = r.mid
    /\ UNCHANGED <<seen, shadow, removed, poolVars, threadVars, replacerVars, treeVars,
                   trieVars, writerVars>>

\* Remove(key) under latch_2_.
RaceRemove(t) ==
    /\ Latch2Free
    /\ \E key \in Keys : hash_table' = HashRemove(hash_table, key).ht
    /\ UNCHANGED <<mid, seen, shadow, removed, poolVars, threadVars, replacerVars, treeVars,
                   trieVars, writerVars>>

\* GetGlobalDepth() under latch_.
RaceGetGlobalDepth(t) ==
    /\ IntrospectionMayEnter
    /\ mid.holder # t
    /\ seen' = [global_depth |-> hash_table.global_depth,
                valid        |-> TRUE,
                during       |-> ~Latch2Free]
    /\ UNCHANGED <<mid, poolVars, threadVars, replacerVars, tableVars, treeVars, trieVars,
                   writerVars>>

\* GetLocalDepth(dir_index) under latch_, for a slot below 2^global_depth of
\* the last GetGlobalDepth().
RaceGetLocalDepth(t) ==
    /\ IntrospectionMayEnter
    /\ mid.holder # t
    /\ \E dir_index \in 0 .. Pow2(seen.global_depth) - 1 :
          seen' = [seen EXCEPT
                     !.valid  = GetLocalDepthInternal(hash_table, dir_index).valid,
                     !.during = ~Latch2Free]
    /\ UNCHANGED <<mid, poolVars, threadVars, replacerVars, tableVars, treeVars, trieVars,
                   writerVars>>

NextRace ==
    \/ \E t \in Threads : RaceInsertEnter(t)
    \/ \E t \in Threads : RaceInsertStep(t)
    \/ \E t \in Threads : RaceRemove(t)
    \/ \E t \in Threads : RaceGetGlobalDepth(t)
    \/ \E t \in Threads : RaceGetLocalDepth(t)

SpecRace == Init /\ [][NextRace]_vars

\* ------------------------------------------------------------- notions
InFreeList(b, f) == \E i \in 1 .. Len(b.free_list) : b.free_list[i] = f

\* A frame is resident when the page table maps a page of the pool to it.
FrameResident(b, f) ==
    \E p \in b.pages_exist :
       HashFind(b.page_table, p).found /\ HashFind(b.page_table, p).value = f

\* The replacer's evictable set: the frames whose flag is set.
Evictable(r, f) == MapGet(r.evictable, f, FALSE)

Pinned(b) == {f \in Frames : FrameResident(b, f) /\ b.pages[f].pin_count > 0}
Unpinned(b) == {f \in Frames : FrameResident(b, f) /\ b.pages[f].pin_count = 0}
Free(b) == {f \in Frames : InFreeList(b, f)}

\* The accesses recorded for a frame since it was last evicted or removed.
History(r, f) == MapGet(r.times, f, <<>>)

\* A frame is tracked from its first RecordAccess to its Evict or Remove.
Tracked(r, f) == History(r, f) # <<>>

\* The frames Evict chooses from: tracked, with the evictable flag set.
Candidates(r) == {f \in DOMAIN r.evictable : Tracked(r, f) /\ Evictable(r, f)}

\* The k-th most recent access of a frame with k accesses or more.
KthRecent(r, f) == History(r, f)[Len(History(r, f)) - r.k + 1]

\* Frame f is to be evicted before frame g: its backward k-distance is the
\* larger one, or both are infinite and its first access is the earlier one.
EvictedBefore(r, f, g) ==
    IF Len(History(r, f)) < r.k
    THEN Len(History(r, g)) < r.k => History(r, f)[1] <= History(r, g)[1]
    ELSE Len(History(r, g)) >= r.k /\ KthRecent(r, f) <= KthRecent(r, g)

\* What callers can tell of a replacer: its size, clock and tracked set, and
\* the flag and history of every frame.
ReplacerState(r) ==
    [size      |-> Size(r),
     clock     |-> r.current_timestamp,
     frames    |-> r.frames,
     flag      |-> [f \in 0 .. r.replacer_size |-> Evictable(r, f)],
     history   |-> [f \in 0 .. r.replacer_size |-> History(r, f)]]

\* Number of pairs with this key in all buckets of the table.
HashEntries(ht, key) ==
    Cardinality({<<n, i>> \in (1 .. Len(ht.buckets)) \X (1 .. ht.bucket_size) :
                    i <= Len(ht.buckets[n].list) /\ ht.buckets[n].list[i][1] = key})

\* --------------------------------------------------------------- claims
\* C1: NewPage returns "none" exactly when the free list is empty and every
\* resident frame is pinned, and a NewPage that fails leaves the whole pool
\* (next_page_id, page table, replacer, free list, frames, disk) as it was.
C1_NewPageFailsIffAllPinned ==
    LET res == NewPgImp(bpm)
    IN  /\ (res.frame = NoFrame) <=>
              (/\ bpm.free_list = <<>>
               /\ \A f \in Frames : FrameResident(bpm, f) => bpm.pages[f].pin_count > 0)
        /\ (res.frame = NoFrame) => (res.b = bpm /\ ~res.ok)

\* A full pool whose pages are all pinned, where NewPage returns "none".
C1_Witness ==
    /\ bpm.free_list = <<>>
    /\ Pinned(bpm) = Frames
    /\ NewPgImp(bpm).frame = NoFrame

\* C2: a resident frame is in the replacer's evictable set exactly when its
\* pin count is 0, Size() counts the resident frames with pin count 0, and
\* the victim NewPage or FetchPage takes from the replacer is never pinned.
C2_EvictableIffUnpinned ==
    /\ \A f \in Frames :
          FrameResident(bpm, f) =>
             (Evictable(bpm.replacer, f) <=> bpm.pages[f].pin_count = 0)
    /\ Size(bpm.replacer) = Cardinality(Unpinned(bpm))
    /\ LET res == NewPgImp(bpm)
       IN  res.victim # NoFrame => bpm.pages[res.victim].pin_count = 0
    /\ \A p \in 0 .. (bpm.next_page_id - 1) :
          LET res == FetchPgImp(bpm, p)
          IN  res.victim # NoFrame => bpm.pages[res.victim].pin_count = 0

\* A full pool with a pinned and an unpinned page, whose unpinned frame is
\* the victim of the next NewPage.
C2_Witness ==
    /\ bpm.free_list = <<>>
    /\ Pinned(bpm) # {}
    /\ NewPgImp(bpm).victim \in Unpinned(bpm)

\* C3: every frame is in exactly one of the states free (once in the free
\* list), resident-pinned and resident-unpinned, and the three counts sum to
\* pool_size.
C3_FramePartition ==
    /\ \A i \in 1 .. Len(bpm.free_list) : bpm.free_list[i] \in Frames
    /\ Cardinality(Free(bpm)) = Len(bpm.free_list)
    /\ \A f \in Frames :
          /\ f \in Free(bpm) \cup Pinned(bpm) \cup Unpinned(bpm)
          /\ ~(f \in Free(bpm) /\ FrameResident(bpm, f))
    /\ Cardinality(Pinned(bpm)) + Cardinality(Unpinned(bpm)) + Len(bpm.free_list)
          = bpm.pool_size

\* A pool that got a frame back from DeletePage and holds a resident page.
C3_Witness ==
    /\ bpm.deallocated # {}
    /\ bpm.free_list # <<>>
    /\ Pinned(bpm) \cup Unpinned(bpm) # {}

\* C4: page table and frames agree. A resident page has exactly one entry,
\* which maps it to a frame outside the free list holding that page id; a
\* page that is not resident has no entry; no two frames outside the free
\* list hold the same page id.
C4_PageTableAgrees ==
    /\ \A p \in bpm.pages_exist :
          /\ HashEntries(bpm.page_table, p) = 1
          /\ HashFind(bpm.page_table, p).found
          /\ FrameOf(bpm, p) \in Frames \ Free(bpm)
          /\ bpm.pages[FrameOf(bpm, p)].page_id = p
    /\ \A p \in PageIds \ bpm.pages_exist :
          /\ HashEntries(bpm.page_table, p) = 0
          /\ ~HashFind(bpm.page_table, p).found
    /\ HashKeys(bpm.page_table) \subseteq bpm.pages_exist
    /\ \A f \in Frames \ Free(bpm) :
          /\ bpm.pages[f].page_id \in bpm.pages_exist
          /\ FrameOf(bpm, bpm.pages[f].page_id) = f
    /\ \A f, g \in Frames \ Free(bpm) :
          bpm.pages[f].page_id = bpm.pages[g].page_id => f = g

\* A full pool, its page table split, next to a page that was evicted.
C4_Witness ==
    /\ Cardinality(bpm.pages_exist) = PoolSize
    /\ issued \ (bpm.pages_exist \cup bpm.deallocated) # {}
    /\ bpm.page_table.global_depth > 0

\* The victim of a call was dirty and its bytes are on disk under its page id.
VictimWrittenBack(b, res) ==
    (res.victim # NoFrame /\ b.pages[res.victim].is_dirty) =>
       res.b.disk[b.pages[res.victim].page_id] = b.pages[res.victim].data

\* C5: a dirty victim of NewPage or FetchPage is written to disk under its own
\* page id before its frame is reused; so the bytes released with
\* UnpinPage(p, true) are those of the resident page or, once it is evicted,
\* those on disk, and FetchPage(p) returns them.
C5_DirtyVictimWrittenBack ==
    /\ VictimWrittenBack(bpm, NewPgImp(bpm))
    /\ \A p \in 0 .. (bpm.next_page_id - 1) :
          LET res == FetchPgImp(bpm, p)
          IN  /\ VictimWrittenBack(bpm, res)
              /\ (res.frame # NoFrame /\ durable[p] # Unknown) =>
                    res.b.pages[res.frame].data \in durable[p]
    /\ \A p \in PageIds :
          durable[p] # Unknown =>
             IF p \in bpm.pages_exist
             THEN /\ bpm.pages[FrameOf(bpm, p)].data \in durable[p]
                  /\ bpm.pages[FrameOf(bpm, p)].is_dirty \/ bpm.disk[p] \in durable[p]
             ELSE bpm.disk[p] \in durable[p]

\* A page released dirty with bytes other than zero has been evicted, and a
\* FetchPage of it that itself evicts a dirty page brings the bytes back.
C5_Witness ==
    \E p \in issued \ bpm.pages_exist :
       LET res == FetchPgImp(bpm, p)
       IN  /\ durable[p] # Unknown
           /\ 0 \notin durable[p]
           /\ p \notin bpm.deallocated
           /\ res.victim # NoFrame
           /\ bpm.pages[res.victim].is_dirty
           /\ res.b.pages[res.frame].data \in durable[p]

\* C6: a successful NewPage returns a frame with pin count 1, clear dirty
\* flag, zeroed data and a page id greater than every page id NewPage returned
\* before, and the page table maps that page id to the frame.
C6_NewPageFresh ==
    LET res == NewPgImp(bpm)
    IN  res.frame # NoFrame =>
           /\ res.ok
           /\ res.frame \in Frames
           /\ res.b.pages[res.frame] =
                 [page_id |-> res.page_id, pin_count |-> 1, is_dirty |-> FALSE, data |-> 0]
           /\ \A q \in issued : q < res.page_id
           /\ res.page_id \in res.b.pages_exist
           /\ HashFind(res.b.page_table, res.page_id) = [found |-> TRUE, value |-> res.frame]

\* After a DeletePage, NewPage takes a frame whose page is dirty with bytes
\* other than zero.
C6_Witness ==
    LET res == NewPgImp(bpm)
    IN  /\ res.frame # NoFrame
        /\ bpm.deallocated # {}
        /\ bpm.pages[res.frame].data # 0
        /\ bpm.pages[res.frame].is_dirty

\* C7: UnpinPage(p, d) returns false and changes nothing when p is not
\* resident or its pin count is 0; otherwise it takes exactly one from the pin
\* count of p and leaves the other pin counts alone. No pin count is negative.
C7_UnpinPage ==
    /\ \A f \in Frames : bpm.pages[f].pin_count >= 0
    /\ \A p \in PageIds, d \in BOOLEAN :
          LET res == UnpinPgImp(bpm, p, d)
              f   == FrameOf(bpm, p)
          IN  IF p \notin bpm.pages_exist \/ bpm.pages[f].pin_count = 0
              THEN ~res.ok /\ res.b = bpm
              ELSE /\ res.ok
                   /\ res.b.pages[f].pin_count = bpm.pages[f].pin_count - 1
                   /\ \A g \in Frames \ {f} :
                         res.b.pages[g].pin_count = bpm.pages[g].pin_count

\* A resident page that is fully unpinned, beside a page that is not resident
\* and a page that is pinned twice.
C7_Witness ==
    /\ \E p \in bpm.pages_exist :
          bpm.pages[FrameOf(bpm, p)].pin_count = 0 /\ ~UnpinPgImp(bpm, p, TRUE).ok
    /\ \E p \in issued \ bpm.pages_exist : ~UnpinPgImp(bpm, p, FALSE).ok
    /\ \E p \in bpm.pages_exist : bpm.pages[FrameOf(bpm, p)].pin_count = 2

\* The frame still holds a dirty page after the call, unless the call took
\* the frame as its victim.
StaysDirty(f, res) == res.victim # f => res.b.pages[f].is_dirty

\* C8: UnpinPage(p, false) does not clear the dirty flag: a resident dirty
\* page stays dirty through every UnpinPage and FetchPage call that does not
\* evict it.
C8_UnpinKeepsDirty ==
    \A f \in Frames :
       (FrameResident(bpm, f) /\ bpm.pages[f].is_dirty) =>
          /\ \A q \in PageIds, d \in BOOLEAN : StaysDirty(f, UnpinPgImp(bpm, q, d))
          /\ \A q \in 0 .. (bpm.next_page_id - 1) : StaysDirty(f, FetchPgImp(bpm, q))

\* A dirty page with a holder left, whose UnpinPage(p, false) succeeds.
C8_Witness ==
    \E p \in bpm.pages_exist :
       /\ bpm.pages[FrameOf(bpm, p)].is_dirty
       /\ UnpinPgImp(bpm, p, FALSE).ok

\* C9: DeletePage(p) of a resident page with pin count other than 0 returns
\* false, DeletePage(p) of a page that is not resident returns true, and both
\* leave the pool and the disk allocation as they were.
C9_DeletePageNoOp ==
    \A p \in PageIds :
       LET res == DeletePgImp(bpm, p)
       IN  /\ (p \in bpm.pages_exist /\ bpm.pages[FrameOf(bpm, p)].pin_count # 0) =>
                 (~res.ok /\ res.b = bpm)
           /\ p \notin bpm.pages_exist => (res.ok /\ res.b = bpm)

\* A pinned resident page beside a page that was evicted.
C9_Witness ==
    /\ \E p \in bpm.pages_exist : ~DeletePgImp(bpm, p).ok
    /\ \E p \in issued \ (bpm.pages_exist \cup bpm.deallocated) : DeletePgImp(bpm, p).ok

\* C10: every frame in the free list has reset metadata: no page id, pin
\* count 0, clear dirty flag and zeroed data.
C10_FreeFramesReset ==
    \A f \in Free(bpm) : bpm.pages[f] = NewPageObject

\* C11: FlushPage(p) of a resident page writes the bytes of its frame to disk
\* whether the dirty flag is set or clear, clears the flag and changes neither
\* a pin count nor what is resident; FlushPage(p) of a page that is not
\* resident returns false and changes nothing; a second FlushPage(p) right
\* after the first changes neither the disk nor the pool.
C11_FlushPage ==
    \A p \in PageIds :
       LET res == FlushPgImp(bpm, p)
           f   == FrameOf(bpm, p)
       IN  IF p \in bpm.pages_exist
           THEN /\ res.ok
                /\ res.b.disk[p] = bpm.pages[f].data
                /\ ~res.b.pages[f].is_dirty
                /\ res.b = [bpm EXCEPT !.disk[p] = bpm.pages[f].data,
                                       !.pages[f].is_dirty = FALSE]
                /\ \A g \in Frames : res.b.pages[g].pin_count = bpm.pages[g].pin_count
                /\ res.b.pages_exist = bpm.pages_exist
                /\ res.b.page_table = bpm.page_table
                /\ FlushPgImp(res.b, p).ok
                /\ FlushPgImp(res.b, p).b = res.b
           ELSE ~res.ok /\ res.b = bpm

\* A pinned resident page whose dirty flag is clear and whose bytes are not
\* those on disk, which FlushPage writes; beside a page that is not resident.
C11_Witness ==
    /\ \E p \in bpm.pages_exist :
          /\ ~bpm.pages[FrameOf(bpm, p)].is_dirty
          /\ bpm.pages[FrameOf(bpm, p)].pin_count > 0
          /\ bpm.disk[p] # bpm.pages[FrameOf(bpm, p)].data
          /\ FlushPgImp(bpm, p).b.disk[p] = bpm.pages[FrameOf(bpm, p)].data
    /\ \E p \in issued \ bpm.pages_exist : ~FlushPgImp(bpm, p).ok

\* Page table, free list, replacer and frame metadata of the pool agree.
PoolAgrees ==
    /\ C3_FramePartition
    /\ C4_PageTableAgrees
    /\ \A f \in Frames :
          FrameResident(bpm, f) =>
             (Evictable(bpm.replacer, f) <=> bpm.pages[f].pin_count = 0)
    /\ Size(bpm.replacer) = Cardinality(Unpinned(bpm))

\* The page the thread last got from NewPage is still in the frame it got.
StillHolds(t) ==
    /\ ret[t] # <<>>
    /\ ret[t][1] \in bpm.pages_exist
    /\ FrameOf(bpm, ret[t][1]) = ret[t][2]

\* C12: with threads calling NewPage, FetchPage, UnpinPage, FlushPage and
\* DeletePage in any interleaving, every operation is atomic: at most one
\* thread is inside an operation, it holds latch_, and the pool it writes
\* over is the pool it read, so the calls take effect one after the other.
\* Two threads never get the same page id from NewPage, nor the same frame
\* as long as the page of each is still in the frame it got, and the page
\* table, free list, replacer and frame metadata a thread finds on entering
\* agree.
C12_OperationsAtomic ==
    /\ \A t \in Threads : Inside(t) => (latch_ = t /\ view[t][1] = bpm)
    /\ \A t, u \in Threads : (Inside(t) /\ Inside(u)) => t = u
    /\ \A t, u \in Threads :
          (t # u /\ ret[t] # <<>> /\ ret[u] # <<>>) =>
             /\ ret[t][1] # ret[u][1]
             /\ (StillHolds(t) /\ StillHolds(u)) => ret[t][2] # ret[u][2]
    /\ PoolAgrees

\* Both threads hold a resident page they got from NewPage, and one of them
\* is inside its next operation while the other can only wait for latch_.
C12_Witness ==
    /\ \A t \in Threads : StillHolds(t)
    /\ \E t \in Threads : Inside(t) /\ latch_ = t
    /\ \E u \in Threads : ~Inside(u) /\ ~ENABLED LatchLock(u)

C14_EvictWhenSizePositive ==
    LET e  == Evict(lru_k, NoFrame)
        r2 == RecordAccess(e.r, e.frame_id)
    IN  Size(lru_k) > 0 =>
           /\ e.succ
           /\ Evictable(lru_k, e.frame_id)
           /\ Size(e.r) = Size(lru_k) - 1
           /\ ~Tracked(e.r, e.frame_id)
           /\ ~Evictable(e.r, e.frame_id)
           /\ History(r2, e.frame_id) = <<e.r.current_timestamp>>
           /\ ~Evictable(r2, e.frame_id)

\* C15: SetEvictable(f, flag) on a frame id f of 0 .. num_frames - 1 changes
\* neither Size() nor anything else of the replacer when f is untracked (no
\* RecordAccess since construction or since its last Evict or Remove) or
\* has the flag already.
C15_SetEvictableNoOp ==
    \A f \in Frames, flag \in BOOLEAN :
       (~Tracked(lru_k, f) \/ Evictable(lru_k, f) = flag) =>
          ReplacerState(SetEvictable(lru_k, f, flag)) = ReplacerState(lru_k)

\* C16: after any calls of RecordAccess, SetEvictable, Evict and Remove,
\* Size() is the number of tracked frames whose evictable flag is set, and
\* a RecordAccess never changes Size().
C16_SizeCountsEvictable ==
    /\ Size(lru_k) = Cardinality({f \in Frames : Tracked(lru_k, f) /\ Evictable(lru_k, f)})
    /\ \A f \in Frames : Size(RecordAccess(lru_k, f)) = Size(lru_k)

\* C17: Remove(f) changes nothing when f is untracked or not evictable. When
\* f is evictable it clears the history of f, leaves f untracked and takes
\* exactly one from Size(), and the history and flag of every other frame
\* stay as they were.
C17_Remove ==
    \A f \in Frames :
       LET r2 == Remove(lru_k, f)
       IN  IF ~Tracked(lru_k, f) \/ ~Evictable(lru_k, f)
           THEN ReplacerState(r2) = ReplacerState(lru_k)
           ELSE /\ History(r2, f) = <<>>
                /\ f \notin r2.frames
                /\ Size(r2) = Size(lru_k) - 1
                /\ \A g \in Frames \ {f} :
                      /\ History(r2, g) = History(lru_k, g)
                      /\ Evictable(r2, g) = Evictable(lru_k, g)

\* The frame ids next to the range 0 .. num_frames - 1 on either side.
InvalidFrameIds == {0 - 1, PoolSize, PoolSize + 1}

\* C18: RecordAccess, SetEvictable and Remove end in a failed assertion, with
\* the replacer unchanged, for every frame id outside 0 .. num_frames - 1,
\* frame_id = num_frames and the negative ids among them.
C18_InvalidFrameIdRejected ==
    \A f \in InvalidFrameIds :
       /\ RecordAccessAborts(lru_k, f)
       /\ SetEvictableAborts(lru_k, f)
       /\ RemoveAborts(lru_k, f)

\* C19: the hash table is a finite map under any sequence of calls. Find(k)
\* returns the value of the last Insert(k, v) that no Remove(k) followed
\* (Insert of a key that is present overwrites its value), Remove(k) returns
\* true exactly when k is present, and neither Insert(k, v) nor Remove(k)
\* changes what Find returns for another key, bucket splits and directory
\* doublings included.
C19_FiniteMap ==
    \A k \in Keys :
       LET gone == HashRemove(hash_table, k)
       IN  /\ HashFind(hash_table, k).found <=> k \in DOMAIN shadow
           /\ k \in DOMAIN shadow => HashFind(hash_table, k).value = shadow[k]
           /\ gone.success <=> k \in DOMAIN shadow
           /\ ~HashFind(gone.ht, k).found
           /\ \A j \in Keys \ {k} : HashFind(gone.ht, j) = HashFind(hash_table, j)
           /\ \A v \in Frames :
                 LET put == HashInsert(hash_table, k, v)
                 IN  /\ HashFind(put, k) = [found |-> TRUE, value |-> v]
                     /\ \A j \in Keys \ {k} : HashFind(put, j) = HashFind(hash_table, j)

\* A table that has doubled its directory twice and removed a key holds
\* MaxEntries keys, and the next Insert splits a bucket without doubling.
C19_Witness ==
    /\ removed
    /\ Cardinality(DOMAIN shadow) = MaxEntries
    /\ hash_table.global_depth >= 2
    /\ \E k \in Keys \ DOMAIN shadow, v \in Frames :
          LET put == HashInsert(hash_table, k, v)
          IN  /\ put.num_buckets > hash_table.num_buckets
              /\ put.global_depth = hash_table.global_depth

\* Keys 0, 4 and 8, and nothing else, were inserted into an empty table whose
\* buckets hold two pairs.
InsertedThree ==
    /\ ~removed
    /\ DOMAIN shadow = {0, 4, 8}
    /\ hash_table.bucket_size = 2

\* C20 as stated: with bucket_size = 2, inserting keys 0 and 4 and then 8
\* into an empty table gives global_depth = 2 and num_buckets = 2, with all
\* three keys findable.
C20_SplitDepthTwo ==
    InsertedThree =>
       /\ hash_table.global_depth = 2
       /\ hash_table.num_buckets = 2
       /\ \A k \in DOMAIN shadow : HashFind(hash_table, k).found

\* C20, amended: with bucket_size = 2, inserting keys 0 and 4 and then 8 into
\* an empty table gives global_depth = 3 and num_buckets = 4, with all three
\* keys findable under the values inserted.
C20_SplitDepthThree ==
    InsertedThree =>
       /\ hash_table.global_depth = 3
       /\ hash_table.num_buckets = 4
       /\ \A k \in DOMAIN shadow :
             HashFind(hash_table, k) = [found |-> TRUE, value |-> shadow[k]]

\* The table after the three inserts: key 8 came last and shares the bucket
\* of key 0, key 4 is in the bucket the last split made.
C20_Witness ==
    /\ InsertedThree
    /\ LET b == hash_table.buckets[hash_table.dir[IndexOf(hash_table, 0) + 1]]
       IN  Len(b.list) = 2 /\ b.list[1][1] = 0 /\ b.list[2][1] = 8
    /\ hash_table.dir[IndexOf(hash_table, 4) + 1] = Len(hash_table.buckets)

\* ------------------------------------------------ notions of the B+ tree
\* What GetValue(key) hands back: <<value>> when it returns true, <<>> when
\* it returns false or does not return.
Retrieved(t, key) ==
    LET g == GetValue(t, key)
    IN  IF ~g.t.undefined /\ g.ret THEN <<g.value>> ELSE <<>>

\* The key is in the tree: GetValue finds it.
Present(t, key) == Retrieved(t, key) # <<>>

\* Every key GetValue finds in t is found in t2 with the same value, k aside.
OthersKept(t, t2, k) ==
    \A j \in TreeKeys \ {k} : Present(t, j) => Retrieved(t2, j) = Retrieved(t, j)

\* C21: for every key k that is not in the tree, in any state reached by
\* Insert and Remove calls, Insert(k, v) returns true, afterwards GetValue(k)
\* returns v, and every key that was present is still retrieved with its
\* old value.
C21_InsertAbsentKey ==
    \A key \in TreeKeys, value \in RIDs :
       ~Present(b_plus_tree, key) =>
          LET r == Insert(b_plus_tree, key, value)
          IN  /\ ~r.t.undefined
              /\ r.ret
              /\ Retrieved(r.t, key) = <<value>>
              /\ OthersKept(b_plus_tree, r.t, key)


\* The children an internal page holds: the page ids in its slots 0 .. size-1.
Children(t, p) ==
    LET pg == PageOf(t, p)
    IN  IF pg.page_type = "INTERNAL"
        THEN {ValueAt(pg, i) : i \in 0 .. pg.size - 1}
        ELSE {}

RECURSIVE ReachFrom(_, _, _)
ReachFrom(t, S, n) ==
    LET S2 == S \cup UNION {Children(t, p) : p \in S}
    IN  IF n = 0 \/ S2 = S THEN S ELSE ReachFrom(t, S2, n - 1)

\* The pages of the tree: those reached from the root through child pointers.
TreePages(t) ==
    IF IsEmpty(t) THEN {}
    ELSE ReachFrom(t, {t.root_page_id_}, Cardinality(DOMAIN t.pages))

Leaves(t) == {p \in TreePages(t) : IsLeafPage(PageOf(t, p))}
Internals(t) == {p \in TreePages(t) : PageOf(t, p).page_type = "INTERNAL"}

\* The keys a page holds in its slots first .. size-1.
PageKeys(pg, first) == {KeyAt(pg, i) : i \in first .. pg.size - 1}

\* The (key, value) pairs stored in the leaves of the tree.
StoredPairs(t) ==
    UNION {{<<KeyAt(PageOf(t, p), i), ValueAt(PageOf(t, p), i)>> :
              i \in 0 .. PageOf(t, p).size - 1} : p \in Leaves(t)}
StoredKeys(t) == {kv[1] : kv \in StoredPairs(t)}

\* C22: Remove(k) of a key that is not in the tree leaves the tree
\* unchanged: the stored (key, value) pairs, the size of every page and the
\* root page id are what they were before the call, also when k was in the
\* tree earlier and has been removed.
C22_RemoveAbsentKey ==
    \A key \in TreeKeys :
       ~Present(b_plus_tree, key) /\ key \notin StoredKeys(b_plus_tree) =>
          LET t2 == BPlusTreeRemove(b_plus_tree, key)
          IN  /\ ~t2.undefined
              /\ StoredPairs(t2) = StoredPairs(b_plus_tree)
              /\ t2.root_page_id_ = b_plus_tree.root_page_id_
              /\ \A p \in DOMAIN b_plus_tree.pages :
                    PageOf(t2, p).size = PageOf(b_plus_tree, p).size


\* C23: Remove(k) of a key that is in the tree makes GetValue(k) report
\* absence and keeps every other key retrievable with its value, whichever
\* way the removal ends: without underflow, with a redistribution, with a
\* (possibly recursive) coalesce or with an adjustment of the root.
C23_RemovePresentKey ==
    \A key \in TreeKeys :
       Present(b_plus_tree, key) =>
          LET t2 == BPlusTreeRemove(b_plus_tree, key)
          IN  /\ ~t2.undefined
              /\ ~Present(t2, key)
              /\ OthersKept(b_plus_tree, t2, key)


\* C24: Insert(k, v) of a key already in the tree returns false and leaves
\* the tree unchanged: the value stored for k is not overwritten, no page is
\* split (no page changes its size, no page is allocated, the root stays)
\* and no other key is affected. A key is in the tree when a leaf of the
\* tree holds it.
C24_InsertDuplicateKey ==
    \A key \in TreeKeys, value \in RIDs :
       key \in StoredKeys(b_plus_tree) =>
          LET r == Insert(b_plus_tree, key, value)
          IN  /\ ~r.t.undefined
              /\ ~r.ret
              /\ Retrieved(r.t, key) = Retrieved(b_plus_tree, key)
              /\ StoredPairs(r.t) = StoredPairs(b_plus_tree)
              /\ r.t.root_page_id_ = b_plus_tree.root_page_id_
              /\ DOMAIN r.t.pages = DOMAIN b_plus_tree.pages
              /\ \A p \in DOMAIN b_plus_tree.pages :
                    PageOf(r.t, p).size = PageOf(b_plus_tree, p).size
              /\ OthersKept(b_plus_tree, r.t, key)


\* The pin counts of t2 are those of t; a page allocated by the call is
\* left unpinned.
PinsKept(t, t2) ==
    \A p \in DOMAIN t2.pages :
       PageOf(t2, p).pin_count = IF Allocated(t, p) THEN PageOf(t, p).pin_count ELSE 0

\* C25: after every completed GetValue, Insert or Remove (the early returns
\* for an empty tree, a duplicate key and an absent key included) the
\* pin_count of every page of the buffer pool equals its value before the
\* call: the tree leaves no page pinned between operations.
C25_PinsReleased ==
    \A key \in TreeKeys :
       /\ LET g == GetValue(b_plus_tree, key)
          IN  ~g.t.undefined => PinsKept(b_plus_tree, g.t)
       /\ \A value \in RIDs :
             LET r == Insert(b_plus_tree, key, value)
             IN  ~r.t.undefined => PinsKept(b_plus_tree, r.t)
       /\ LET t2 == BPlusTreeRemove(b_plus_tree, key)
          IN  ~t2.undefined => PinsKept(b_plus_tree, t2)


\* Every leaf other than the root holds at least ceil(leaf_max_size/2)
\* entries, and every leaf, the root leaf included, at most leaf_max_size - 1.
LeafOccupancy(t) ==
    \A p \in Leaves(t) :
       /\ PageOf(t, p).size <= t.leaf_max_size_ - 1
       /\ p # t.root_page_id_ => PageOf(t, p).size >= (t.leaf_max_size_ + 1) \div 2

\* C26 as stated: after every completed Insert or Remove every leaf other
\* than the root holds at least ceil(leaf_max_size/2) and at most
\* leaf_max_size - 1 entries, and the root leaf at most leaf_max_size - 1,
\* whatever leaf_max_size is.
C26_LeafOccupancyAnySize == LeafOccupancy(b_plus_tree)

\* C26, amended: when leaf_max_size is even, after every completed Insert
\* or Remove every leaf other than the root holds at least
\* ceil(leaf_max_size/2) and at most leaf_max_size - 1 entries, and the
\* root leaf holds at most leaf_max_size - 1 entries.
C26_LeafOccupancy ==
    b_plus_tree.leaf_max_size_ % 2 = 0 => LeafOccupancy(b_plus_tree)

\* A tree of even leaf_max_size after a Remove, with a leaf at the lower
\* bound and a leaf at the upper bound.
C26_Witness ==
    /\ b_plus_tree.leaf_max_size_ % 2 = 0
    /\ calls.remove > 0
    /\ \E p, q \in Leaves(b_plus_tree) \ {b_plus_tree.root_page_id_} :
          /\ PageOf(b_plus_tree, p).size = (b_plus_tree.leaf_max_size_ + 1) \div 2
          /\ PageOf(b_plus_tree, q).size = b_plus_tree.leaf_max_size_ - 1


\* C27: after every completed Insert or Remove every internal page other
\* than the root holds at least ceil(internal_max_size/2) and at most
\* internal_max_size children.
C27_InternalOccupancy ==
    \A p \in Internals(b_plus_tree) \ {b_plus_tree.root_page_id_} :
       /\ PageOf(b_plus_tree, p).size >= (b_plus_tree.internal_max_size_ + 1) \div 2
       /\ PageOf(b_plus_tree, p).size <= b_plus_tree.internal_max_size_


RECURSIVE SubtreeFrom(_, _, _)
SubtreeFrom(t, S, n) ==
    LET S2 == S \cup UNION {Children(t, p) : p \in S}
    IN  IF n = 0 \/ S2 = S THEN S ELSE SubtreeFrom(t, S2, n - 1)

\* The keys stored in the leaves of the subtree of page p.
SubtreeKeys(t, p) ==
    UNION {PageKeys(PageOf(t, q), 0) :
             q \in {x \in SubtreeFrom(t, {p}, Cardinality(DOMAIN t.pages)) :
                       IsLeafPage(PageOf(t, x))}}

\* The keys of a page increase strictly: those of slots 0 .. size-1 of a
\* leaf, the separators of slots 1 .. size-1 of an internal page.
KeysIncrease(pg) ==
    \A i, j \in (IF IsLeafPage(pg) THEN 0 ELSE 1) .. pg.size - 1 :
       i < j => Cmp(KeyAt(pg, i), KeyAt(pg, j)) = 0 - 1

\* Every key in the subtree of child i lies in [k_i, k_(i+1)).
SeparatorsBound(t, p) ==
    LET pg == PageOf(t, p)
    IN  \A i \in 0 .. pg.size - 1 :
           \A x \in SubtreeKeys(t, ValueAt(pg, i)) :
              /\ i >= 1 => Cmp(KeyAt(pg, i), x) <= 0
              /\ i + 1 <= pg.size - 1 => Cmp(x, KeyAt(pg, i + 1)) = 0 - 1

Ordered(t) ==
    /\ \A p \in TreePages(t) : KeysIncrease(PageOf(t, p))
    /\ \A p \in Internals(t) : SeparatorsBound(t, p)

\* C28: after every completed Insert or Remove the keys of every page
\* increase strictly and, for every internal page with separators k_1 .. k_n
\* and children c_0 .. c_n, every key x stored in the subtree of c_i
\* satisfies k_i <= x < k_(i+1), with k_0 = -infinity and k_(n+1) = +infinity.
C28_KeysOrdered == Ordered(b_plus_tree)


\* The leaf a descent through the first child of every internal page ends in.
RECURSIVE LeftmostFrom(_, _, _)
LeftmostFrom(t, p, n) ==
    IF n = 0 \/ PageOf(t, p).page_type # "INTERNAL" THEN p
    ELSE LeftmostFrom(t, ValueAt(PageOf(t, p), 0), n - 1)

LeftmostLeaf(t) == LeftmostFrom(t, t.root_page_id_, Cardinality(DOMAIN t.pages))

\* The leaves met by following next_page_id from page p, and the page id
\* at which the walk ends: the first one that is no leaf.
RECURSIVE ChainFrom(_, _, _)
ChainFrom(t, p, n) ==
    IF n = 0 \/ ~Allocated(t, p) \/ ~IsLeafPage(PageOf(t, p))
    THEN [leaves |-> <<>>, end |-> p]
    ELSE LET rest == ChainFrom(t, PageOf(t, p).next_page_id, n - 1)
         IN  [leaves |-> <<p>> \o rest.leaves, end |-> rest.end]

LeafChain(t) == ChainFrom(t, LeftmostLeaf(t), Cardinality(DOMAIN t.pages) + 1)

\* The keys of the leaves of a chain, in the order the walk yields them.
RECURSIVE ChainKeys(_, _)
ChainKeys(t, leaves) ==
    IF leaves = <<>> THEN <<>>
    ELSE [i \in 1 .. PageOf(t, Head(leaves)).size |-> KeyAt(PageOf(t, Head(leaves)), i - 1)]
         \o ChainKeys(t, Tail(leaves))

\* C29: following next_page_id from the leftmost leaf visits every leaf of
\* the tree exactly once, yields all stored keys in strictly ascending
\* order and ends at INVALID_PAGE_ID: the rightmost leaf, a freshly created
\* root leaf included, has no successor, and split and coalesce keep the
\* chain linked.
C29_LeafChain ==
    ~IsEmpty(b_plus_tree) =>
       LET c == LeafChain(b_plus_tree)
           keys == ChainKeys(b_plus_tree, c.leaves)
       IN  /\ c.end = INVALID_PAGE_ID
           /\ {c.leaves[i] : i \in 1 .. Len(c.leaves)} = Leaves(b_plus_tree)
           /\ Len(c.leaves) = Cardinality(Leaves(b_plus_tree))
           /\ {keys[i] : i \in 1 .. Len(keys)} = StoredKeys(b_plus_tree)
           /\ \A i, j \in 1 .. Len(keys) : i < j => Cmp(keys[i], keys[j]) = 0 - 1


\* The lengths of the paths from page p down to a leaf; a path that ends in
\* a page that is neither a leaf nor an internal page counts as -1.
RECURSIVE DepthsFrom(_, _, _)
DepthsFrom(t, p, n) ==
    IF IsLeafPage(PageOf(t, p)) THEN {0}
    ELSE IF n = 0 \/ PageOf(t, p).page_type # "INTERNAL" THEN {0 - 1}
    ELSE UNION {{IF d < 0 THEN d ELSE d + 1 : d \in DepthsFrom(t, c, n - 1)} :
                  c \in Children(t, p)}

\* The depths, from the root, of the leaves of the tree.
LeafDepths(t) ==
    IF IsEmpty(t) THEN {}
    ELSE DepthsFrom(t, t.root_page_id_, Cardinality(DOMAIN t.pages))

\* C30: after every completed Insert or Remove all leaves of the tree are
\* at the same depth from the root.
C30_LeavesSameDepth ==
    /\ Cardinality(LeafDepths(b_plus_tree)) <= 1
    /\ \A d \in LeafDepths(b_plus_tree) : d >= 0

\* A tree that had three levels (the split of the root allocated its ninth
\* page) and has two after a Remove whose coalesce reached the root.
C30_Witness ==
    /\ calls.remove > 0
    /\ Cardinality(DOMAIN b_plus_tree.pages) >= 9
    /\ LeafDepths(b_plus_tree) = {1}
    /\ Cardinality(Leaves(b_plus_tree)) >= 3


\* The largest index in 0 .. size-1 whose key is at most the search key,
\* the key of slot 0 counting as minus infinity.
LargestAtMost(pg, key) ==
    LET at_most == {0} \cup {i \in 1 .. pg.size - 1 : Cmp(KeyAt(pg, i), key) <= 0}
    IN  CHOOSE i \in at_most : \A j \in at_most : j <= i

\* C35: for every internal page with strictly increasing keys in slots
\* 1 .. size-1 (any size >= 1) and every search key, IndexLookup returns the
\* largest index i in 0 .. size-1 with array[i].key <= key, slot 0's key
\* counting as minus infinity; it never returns an index >= size. The pages
\* are the internal pages the tree builds.
C35_IndexLookup ==
    \A p \in Internals(b_plus_tree) :
       LET pg == PageOf(b_plus_tree, p)
       IN  pg.size >= 1 /\ KeysIncrease(pg) =>
              \A key \in TreeKeys :
                 /\ IndexLookup(pg, key) < pg.size
                 /\ IndexLookup(pg, key) = LargestAtMost(pg, key)


\* ----------------------------------------------------------- index iterator
\* INDEXITERATOR_TYPE(): an iterator constructed from nothing names no leaf.
IndexIterator == [page_id |-> INVALID_PAGE_ID, index |-> 0]

\* Begin(), Begin(key) and End() construct their iterator from nothing.
Begin(t) == IndexIterator
BeginAt(t, key) == IndexIterator
End(t) == IndexIterator

\* The key the iterator stands at.
IteratorKey(t, it) == KeyAt(PageOf(t, it.page_id), it.index)

\* One step: the next entry of the leaf or, when the leaf is exhausted, the
\* first entry of the leaf next_page_id names; the end past the last leaf.
IteratorNext(t, it) ==
    LET pg == PageOf(t, it.page_id)
    IN  IF it.index + 1 < pg.size THEN [it EXCEPT !.index = @ + 1]
        ELSE IF Allocated(t, pg.next_page_id) /\ IsLeafPage(PageOf(t, pg.next_page_id))
        THEN [page_id |-> pg.next_page_id, index |-> 0]
        ELSE End(t)

\* The keys visited from an iterator until End().
RECURSIVE ScanFrom(_, _, _)
ScanFrom(t, it, n) ==
    IF n = 0 \/ it = End(t) THEN <<>>
    ELSE <<IteratorKey(t, it)>> \o ScanFrom(t, IteratorNext(t, it), n - 1)

\* The keys of a set in ascending order.
RECURSIVE Ascending(_)
Ascending(S) ==
    IF S = {} THEN <<>>
    ELSE LET least == CHOOSE k \in S : \A j \in S : k <= j
         IN  <<least>> \o Ascending(S \ {least})

\* C31: iterating from Begin() until End() visits every key stored in the
\* tree exactly once in ascending order, Begin(k) starts at the first entry
\* with key >= k, and Begin() of a non-empty tree differs from End().
C31_Iterator ==
    /\ ScanFrom(b_plus_tree, Begin(b_plus_tree), MaxTreeKey + 1)
          = Ascending(StoredKeys(b_plus_tree))
    /\ \A key \in TreeKeys :
          LET from == {k \in StoredKeys(b_plus_tree) : k >= key}
          IN  from # {} =>
                 /\ BeginAt(b_plus_tree, key) # End(b_plus_tree)
                 /\ IteratorKey(b_plus_tree, BeginAt(b_plus_tree, key))
                       = Ascending(from)[1]
    /\ StoredKeys(b_plus_tree) # {} => Begin(b_plus_tree) # End(b_plus_tree)


\* The pages allocated to the index: every page of the buffer pool the tree
\* obtained through NewPage and that no DeletePage has destroyed.
IndexPages(t) == DOMAIN t.pages \ {HEADER_PAGE_ID}

\* C37: a page emptied by a coalesce, and the old root AdjustRoot replaces,
\* is destroyed through DeletePage: when the allocated pages are the pages
\* reachable from the root before a Remove, they are so after it completes.
C37_EmptiedPagesDeleted ==
    IndexPages(b_plus_tree) = TreePages(b_plus_tree) =>
       \A key \in TreeKeys :
          LET t2 == BPlusTreeRemove(b_plus_tree, key)
          IN  ~t2.undefined => IndexPages(t2) = TreePages(t2)


\* Remove(key) takes the last key of the tree: the root page id becomes
\* INVALID_PAGE_ID, IsEmpty() is true and every later Insert starts a new
\* tree whose root is a leaf holding the inserted pair.
LastKeyRemoved(t, key) ==
    LET t2 == BPlusTreeRemove(t, key)
    IN  /\ ~t2.undefined
        /\ t2.root_page_id_ = INVALID_PAGE_ID
        /\ IsEmpty(t2)
        /\ \A k2 \in TreeKeys, value \in RIDs :
              LET r == Insert(t2, k2, value)
              IN  /\ ~r.t.undefined
                  /\ r.ret
                  /\ ~IsEmpty(r.t)
                  /\ IsLeafPage(PageOf(r.t, r.t.root_page_id_))
                  /\ IsRootPage(PageOf(r.t, r.t.root_page_id_))
                  /\ StoredPairs(r.t) = {<<k2, value>>}

\* Remove(key) on a tree whose root is an internal page: the root is never
\* left with a single child, and when the root changes the new root is a
\* child of the old one, has no parent, and every leaf is one level higher.
RootCollapsed(t, key) ==
    LET t2 == BPlusTreeRemove(t, key)
        old == t.root_page_id_
        new == t2.root_page_id_
    IN  ~t2.undefined =>
           /\ ~IsEmpty(t2)
           /\ PageOf(t2, new).page_type = "INTERNAL" => PageOf(t2, new).size > 1
           /\ new # old =>
                 /\ new \in Children(t, old)
                 /\ PageOf(t2, new).parent_page_id = INVALID_PAGE_ID
                 /\ LeafDepths(t2) = {d - 1 : d \in LeafDepths(t)}

\* Remove(key) never replaces a root that keeps more than one entry.
RootKept(t, key) ==
    LET t2 == BPlusTreeRemove(t, key)
        old == t.root_page_id_
    IN  ~t2.undefined /\ PageOf(t2, old).size > 1 => t2.root_page_id_ = old

\* C38: removing the last key empties the tree so that a later Insert starts
\* a new one; a removal that leaves an internal root with one child makes
\* that child the root, without a parent and one level lower; a root with
\* more than one entry stays the root.
C38_AdjustRoot ==
    \A key \in TreeKeys :
       /\ StoredKeys(b_plus_tree) = {key} => LastKeyRemoved(b_plus_tree, key)
       /\ ~IsEmpty(b_plus_tree)
            /\ PageOf(b_plus_tree, b_plus_tree.root_page_id_).page_type = "INTERNAL"
            => RootCollapsed(b_plus_tree, key)
       /\ ~IsEmpty(b_plus_tree) => RootKept(b_plus_tree, key)


\* A tree whose root was an internal page (the split of the first leaf
\* allocated a second leaf and a root) and, after a Remove, is a leaf again.
C38_Witness ==
    /\ calls.remove > 0
    /\ Cardinality(IndexPages(b_plus_tree)) >= 3
    /\ ~IsEmpty(b_plus_tree)
    /\ IsLeafPage(PageOf(b_plus_tree, b_plus_tree.root_page_id_))
    /\ IsRootPage(PageOf(b_plus_tree, b_plus_tree.root_page_id_))


\* The internal pages of the tree that list page p as a child.
ParentsOf(t, p) == {q \in Internals(t) : p \in Children(t, q)}

\* Parent pointers agree with child pointers.
ParentsAgree(t) ==
    \A p \in TreePages(t) :
       IF p = t.root_page_id_
       THEN PageOf(t, p).parent_page_id = INVALID_PAGE_ID /\ ParentsOf(t, p) = {}
       ELSE ParentsOf(t, p) = {PageOf(t, p).parent_page_id}

SlotBucket(ht, i) == ht.buckets[ht.dir[i + 1]]

\* The structure of the directory and of the buckets of a hash table.
TableWellFormed(ht) ==
    LET slots == 0 .. Len(ht.dir) - 1
    IN  /\ Len(ht.dir) = Pow2(ht.global_depth)
        /\ \A i \in slots :
              /\ SlotBucket(ht, i).depth <= ht.global_depth
              /\ Len(SlotBucket(ht, i).list) <= ht.bucket_size
        /\ \A i, j \in slots :
              ht.dir[i + 1] = ht.dir[j + 1]
                 <=> LowBits(i, SlotBucket(ht, i).depth) = LowBits(j, SlotBucket(ht, i).depth)
        /\ \A b \in 1 .. Len(ht.buckets) :
              \A n \in 1 .. Len(ht.buckets[b].list) :
                 ht.dir[IndexOf(ht, ht.buckets[b].list[n][1]) + 1] = b
        /\ ht.num_buckets = Cardinality({ht.dir[i + 1] : i \in slots})

\* C36: in every state reached by Insert and Remove calls the directory has
\* 2^global_depth slots, no bucket is deeper than the directory or holds more
\* than bucket_size entries, two slots share a bucket exactly when they
\* agree on its low local_depth bits, every key lies in the bucket of the
\* slot its hash selects, and num_buckets counts the distinct buckets.
C36_TableWellFormed == TableWellFormed(hash_table)

\* A table after two splits of which the second did not double the
\* directory, and after a Remove.
C36_Witness ==
    /\ removed
    /\ hash_table.num_buckets >= 3
    /\ hash_table.num_buckets < Len(hash_table.dir)


\* ------------------------------------------------- notions of the trie
\* Every stored key is retrieved with its value, the keys in except aside.
StoredRetrieved(t, except) ==
    \A k \in DOMAIN stored \ except :
       \A success \in BOOLEAN : TrieGetValue(t, k, success).value = stored[k]

\* C33: Remove(key) returns true exactly when the key is stored, inserted
\* and not removed since; for the empty key and for a key that is not
\* stored, a proper prefix of stored keys included, it returns false and
\* every stored key is still retrieved with its value.
C33_TrieRemove ==
    \A key \in TrieKeys :
       LET r == TrieRemove(trie, key)
       IN  /\ r.success <=> key \in DOMAIN stored
           /\ key \notin DOMAIN stored => ~r.success /\ StoredRetrieved(r.trie, {})

\* C34: Insert(key, value) returns false for the empty key and for a stored
\* key, whose value it leaves; for any other key it returns true and
\* GetValue(key) then returns value; every other stored key, prefixes and
\* extensions of key included, keeps its value.
C34_TrieInsert ==
    \A key \in TrieKeys, value \in TrieValues :
       LET r == TrieInsert(trie, key, value)
       IN  IF key = <<>> \/ key \in DOMAIN stored
           THEN ~r.success /\ StoredRetrieved(r.trie, {})
           ELSE /\ r.success
                /\ \A success \in BOOLEAN :
                      TrieGetValue(r.trie, key, success).value = value
                /\ StoredRetrieved(r.trie, {key})

\* A stored key with a stored proper prefix and a stored extension.
C34_Witness ==
    \E k \in DOMAIN stored :
       /\ \E p \in DOMAIN stored : Len(p) < Len(k) /\ SubSeq(k, 1, Len(p)) = p
       /\ \E e \in DOMAIN stored : Len(k) < Len(e) /\ SubSeq(e, 1, Len(k)) = k


\* No thread is inside an Insert call on the tree.
Quiescent == \A w \in Threads : writers[w].pc = "idle"

\* C32: under any interleaving of threads that call Insert with distinct
\* keys, every call returns true and stays within defined behaviour, and
\* once the calls have returned every inserted key is retrieved by GetValue,
\* the keys are ordered, the leaves have one depth and the parent pointers
\* agree with the child pointers.
C32_WritersSerialized ==
    /\ ~b_plus_tree.undefined
    /\ \A k \in DOMAIN returned : returned[k]
    /\ Quiescent =>
          /\ \A k \in DOMAIN returned : Present(b_plus_tree, k)
          /\ Ordered(b_plus_tree)
          /\ Cardinality(LeafDepths(b_plus_tree)) <= 1
          /\ ParentsAgree(b_plus_tree)


\* C40: the introspection calls exclude Insert, Remove and Find: none runs
\* while an Insert is inside InsertImp, so none finds global_depth_
\* incremented before the directory has doubled, and GetLocalDepth(i) reads
\* an element of the directory for every i below 2^GetGlobalDepth().
C40_IntrospectionExcluded ==
    /\ ~seen.during
    /\ seen.valid
    /\ Latch2Free \/ IntrospectionMayEnter =>
          Len(hash_table.dir) = Pow2(hash_table.global_depth)

=============
